---- MODULE Spec2Model ----
(***************************************************************************)
(* Model of the audio pipeline of sip_phone: the asyncio AudioBuffer of    *)
(* core/buffer_manager.py, the AudioProcessor of core/audio_processor.py   *)
(* with its DtmfProcessor (core/dtmf.py), and the lock-protected sample    *)
(* buffer of hardware/audio_buffer.py.                                     *)
(*                                                                         *)
(* asyncio is cooperative: a coroutine runs without interruption from one  *)
(* suspension point to the next.  Every action below is one such run (or   *)
(* one whole call of a function that never suspends).  "async with" on the *)
(* buffer lock never suspends, because no holder of the lock awaits while  *)
(* holding it; the suspension points of the code are _wait_for_data, the   *)
(* await of a stream handler and the await of the cancelled task in stop.  *)
(***************************************************************************)
EXTENDS Integers, Sequences, FiniteSets, TLC

(* ------------------------------ bounds -------------------------------- *)
\* capacity of each queue of the buffer ('audio.buffer.max_size', 50 in the code)
max_size == 2
\* number of frames the producers offer in one run
MaxFrames == 3
\* cap of the counters that a run could otherwise raise for ever
MaxCount == 3
\* the clock stops advancing here (milliseconds)
MaxTime == 100
\* number of frames offered in a run of the fan-out specification
FanoutFrames == 1
\* capacity, in bytes, the sample buffer is constructed with
MaxBytes == 4
\* largest number of samples in one write to, or read from, the sample buffer
MaxWrite == 3
\* entries the phone's state history keeps (StateManager._max_history, 100 in the code)
max_history == 2
MaxEvents == 2
MaxDeliveries == 3
max_attempts == 2
MaxStops == 1
\* number of transitions a run asks of the call state manager
MaxTransitions == 3

(* --------------------------- program constants ------------------------ *)
None == "None"
\* "no frame" (None where the code returns bytes), "no time", "no task"
NoFrame == [id |-> 0, kind |-> "None"]
AudioError == [id |-> 0, kind |-> "AudioError"]
NoTime == -1
NoTask == 0
\* DtmfProcessor.min_duration_ms
min_duration_ms == 40
\* one frame period in milliseconds (frame_size 160 samples at 8000 Hz)
FrameMs == 20
\* entries an empty Python dict holds before its table is rebuilt
DictUsable == 5
\* DtmfProcessor.frame_size, in samples, and DtmfProcessor.detection_threshold,
\* 0.4, in tenths like the energies below
frame_size == 160
detection_threshold == 4
\* 1.0 in the unit of the samples, 1 / 32768 (audio_processor.py line 253)
FullScale == 32768
\* AudioProcessor.agc_target, -18 dB, as an amplitude: 10 ^ (-18 / 20) * 32768
agc_target == 4125
\* AudioBuffer(hardware) defaults: channels and bytes per sample
channels == 1
sample_width == 2

Readers == {"r1", "r2"}
HandlerIds == {"h1", "h2", "h3"}
TaskIds == {1, 2}
FrameKinds == {"silence", "tone4", "tone5", "empty"}
Hole == "hole"
\* the threads that call the sample buffer
HwThreads == {"loop", "worker"}
\* threading.Lock() as AudioBuffer.__init__ creates it: nobody holds it,
\* nobody waits for it
NoLock == [holder |-> None, waiting |-> {}]
\* no byte has been handed to the codec
NoCodec == [pc |-> "idle", byte |-> 0, first |-> 0, scaled |-> 0, encoded |-> 0,
            second |-> 0]
\* _detect_dtmf has not been called
NoClassifier == [pc |-> "idle", len |-> 0, row_energies |-> <<>>, col_energies |-> <<>>,
                 result |-> None]
\* the settings AudioProcessor.__init__ takes when the configuration is silent
\* (lines 45-48), before _apply_processing is called
NoTransform == [pc |-> "idle", gain |-> 1, enable_agc |-> TRUE,
                enable_noise_reduction |-> TRUE, audio_data |-> <<>>, samples |-> <<>>,
                gained |-> <<>>, levelled |-> <<>>, gated |-> <<>>, processed |-> <<>>]
\* core/state.py StateManager.__init__, lines 58-75, and the class-level lock
NoPhone == [state |-> "on_hook", history |-> <<>>, lock |-> "free", pc |-> "idle",
            result |-> None, error_condition |-> None, errors |-> 0]
\* core/state_manager.py StateManager.__init__, lines 69-92, with nothing to restore
NoCallMgr == [state |-> "on_hook", history |-> <<>>, error_count |-> 0, result |-> None,
              active_calls |-> {}]
\* events/dispatcher.py: the handlers that register, the types of the events
\* that are dispatched (NoType: a class without the field `type`)
EventHandlers == {"g", "t"}
NoType == "no type"
EventKinds == {"dtmf", NoType}
AllEvents == {None}
\* EventDispatcher.__init__, lines 26-35, with what the model keeps beside
\* it: the events dispatched so far and what each handler was called with
NoDispatcher == [handlers |-> <<>>, global_handlers |-> {}, queue |-> <<>>,
                 process_task |-> None, running |-> FALSE,
                 event |-> None, pending |-> {}, stops |-> 0, errors |-> 0,
                 sent |-> <<>>, delivered |-> [h \in EventHandlers |-> <<>>]]
\* integrations/webhooks/delivery.py: the webhooks that are delivered and
\* what one HTTP exchange can come to
WebhookIds == {"w1", "w2"}
PostOutcomes == {"ok", "http_error", "exception"}
\* WebhookDeliveryManager.__init__, lines 86-91; retry_queue counts the
\* entries queued for each webhook id, calls the calls of deliver so far
NoDeliveryManager == [session |-> FALSE, running |-> FALSE, deliveries |-> <<>>,
                      retry_queue |-> [w \in WebhookIds |-> 0],
                      calls |-> 0, stops |-> 0]
\* core/pjsip_server.py SIPServer before any call: no session, no error
SessionIds == {"s1", "s2"}
NoSip == [active_sessions |-> <<>>, last_error |-> None]

VARIABLES
    \* core/buffer_manager.py AudioBuffer
    raw_buffer, processed_buffer, data_available, overflow_count, underflow_count,
    \* callers suspended in read_raw / read_processed
    reader,
    \* core/audio_processor.py AudioProcessor
    running, processing_task, tasks, stop_pc, stream_handlers,
    processed_frames, dropped_frames, pf_result,
    \* core/dtmf.py DtmfProcessor
    current_digit, digit_start_time, webhook_manager, dispatched,
    \* the event loop's clock and the producers' frame counter
    now, next_id,
    \* history: accepted raw writes, frames handed to each handler, and
    \* whether anything but write_raw has touched the buffer
    written, delivered, touched,
    \* hardware/audio_buffer.py AudioBuffer
    hw_buffer, hw_stats, overflow_strategy, hw_result,
    \* which buffer object a run of the buffer interface exercises
    instance,
    \* integrations/webhooks.py WebhookManager: the dispatch_dtmf tasks that
    \* have run, the queue of events and the _sequence counter
    ran, webhook_queue, sequence,
    \* a DtmfProcessor fed directly: how the last process_audio call ended,
    \* the frames fed so far, and the call_id of the frame that started the
    \* digit being tracked
    pa_result, fed, digit_call_id,
    \* hardware/audio_buffer.py AudioBuffer.max_size: the byte size the sample
    \* buffer was constructed with
    hw_max_size, hw_lock, sip, dispatcher, delivery_manager,
    \* api/websocket/audio.py AudioStreamManager
    active_connections, stream_task,
    \* a byte taken through _decode_g711, _encode_g711 and _decode_g711 again:
    \* the position of the caller and the values it has obtained
    codec,
    \* a caller of DtmfProcessor._detect_dtmf: the frame it passed and the result
    classifier,
    \* a caller of AudioProcessor._apply_processing: the settings, the samples
    \* passed and the samples after each step
    transform,
    \* core/state.py StateManager and core/state_manager.py StateManager
    phone, callmgr

bufVars == <<raw_buffer, processed_buffer, data_available, overflow_count, underflow_count>>
procVars == <<running, processing_task, tasks, stop_pc, stream_handlers,
              processed_frames, dropped_frames, pf_result>>
dtmfVars == <<current_digit, digit_start_time, webhook_manager, dispatched>>
histVars == <<written, delivered, touched>>
hwVars == <<hw_buffer, hw_stats, overflow_strategy, hw_result, instance>>
sinkVars == <<ran, webhook_queue, sequence>>
callVars == <<pa_result, fed, digit_call_id>>
detectorVars == <<sinkVars, callVars>>
wsVars == <<active_connections, stream_task>>
pureVars == <<codec, classifier, transform>>
stateVars == <<phone, callmgr>>
\* the mutex of the sample buffer and the SIP server; each with the rest
svcVars == <<hw_lock, sip, dispatcher, delivery_manager>>
lockOthers == <<sip, dispatcher, delivery_manager>>
sipOthers == <<hw_lock, dispatcher, delivery_manager>>
dispatcherOthers == <<hw_lock, sip, delivery_manager>>
deliveryOthers == <<hw_lock, sip, dispatcher>>
extVars == <<hw_max_size, svcVars, wsVars, pureVars, stateVars>>
vars == <<bufVars, reader, procVars, dtmfVars, now, next_id, histVars, hwVars,
          detectorVars, extVars>>

(* ============================ AudioBuffer ============================= *)
(* The buffer operations are written over a record s that carries the      *)
(* fields one uninterrupted run of a coroutine can change; woke records    *)
(* that _data_available.set() was called, which resolves the futures of    *)
(* all tasks waiting on the event.                                         *)

\* write_raw without the test of line 67: the deque takes every frame
write_raw_unchecked(s, audio_data) ==
    [s EXCEPT !.raw = Append(@, audio_data), !.avail = TRUE, !.woke = TRUE,
              !.written = Append(@, audio_data.id)]

\* write_raw that lets deque(maxlen) push out the oldest frame when full
write_raw_overwrite(s, audio_data) ==
    [s EXCEPT !.raw = Append(IF Len(@) >= max_size THEN Tail(@) ELSE @, audio_data),
              !.avail = TRUE, !.woke = TRUE, !.written = Append(@, audio_data.id),
              !.ovf = IF Len(s.raw) >= max_size THEN @ + 1 ELSE @]

\* write_raw, lines 66-76
write_raw(s, audio_data) ==
    IF Len(s.raw) >= max_size
    THEN [s EXCEPT !.ovf = @ + 1]
    ELSE [s EXCEPT !.raw = Append(@, audio_data), !.avail = TRUE, !.woke = TRUE,
                   !.written = Append(@, audio_data.id)]

\* write_processed, lines 93-103
write_processed(s, samples) ==
    IF Len(s.proc) >= max_size
    THEN [s EXCEPT !.ovf = @ + 1]
    ELSE [s EXCEPT !.proc = Append(@, samples), !.avail = TRUE, !.woke = TRUE]

\* read_raw, lines 127-139: the part under the lock
take_raw(s) ==
    IF s.raw = <<>>
    THEN [st |-> [s EXCEPT !.udf = @ + 1], data |-> NoFrame]
    ELSE [st |-> [s EXCEPT !.raw = Tail(@),
                           !.avail = IF Tail(s.raw) = <<>> THEN FALSE ELSE @],
          data |-> Head(s.raw)]

\* read_processed, lines 166-178: the part under the lock
take_processed(s) ==
    IF s.proc = <<>>
    THEN [st |-> [s EXCEPT !.udf = @ + 1], data |-> NoFrame]
    ELSE [st |-> [s EXCEPT !.proc = Tail(@),
                           !.avail = IF Tail(s.proc) = <<>> THEN FALSE ELSE @],
          data |-> Head(s.proc)]

\* clear that also resets the processor's frame counters
clear_with_frame_counters(s) ==
    [s EXCEPT !.raw = <<>>, !.proc = <<>>, !.ovf = 0, !.udf = 0, !.avail = FALSE,
              !.pf = 0, !.df = 0]

\* clear, lines 219-223
clear(s) ==
    [s EXCEPT !.raw = <<>>, !.proc = <<>>, !.ovf = 0, !.udf = 0, !.avail = FALSE]

(* ===================== the stream-handler dict ======================== *)
(* _stream_handlers is a Python dict: an array of entries in insertion     *)
(* order in which a deleted entry leaves a hole, rebuilt without holes     *)
(* when an insertion finds it full.  An iterator keeps the size the dict   *)
(* had when it was created, its position in the array and the number of    *)
(* entries it still expects.                                               *)

Min(S) == CHOOSE x \in S : \A y \in S : x <= y
Range(f) == {f[i] : i \in DOMAIN f}
dict_keys(d) == Range(d) \ {Hole}
dict_used(d) == Cardinality({i \in DOMAIN d : d[i] # Hole})
dict_compact(d) == SelectSeq(d, LAMBDA e : e # Hole)

\* add_stream_handler, line 292
add_stream_handler(d, handler_id) ==
    IF handler_id \in dict_keys(d) THEN d
    ELSE IF Len(d) >= DictUsable THEN Append(dict_compact(d), handler_id)
    ELSE Append(d, handler_id)

\* remove_stream_handler, lines 302-303
remove_stream_handler(d, handler_id) ==
    [i \in DOMAIN d |-> IF d[i] = handler_id THEN Hole ELSE d[i]]

\* The holes of the array are visible only to an iterator: while no task is
\* suspended inside the for statement the model keeps the array without them.
Settle(d, iterating) == IF iterating THEN d ELSE dict_compact(d)

\* snap is history: the handlers registered when the iteration began
NoIter == [used |-> 0, pos |-> 0, len |-> 0, snap |-> {}]
\* "for handler in self._stream_handlers.values()", line 150: the iterator
dict_values_iter(d) ==
    [used |-> dict_used(d), pos |-> 0, len |-> dict_used(d), snap |-> dict_keys(d)]
\* one step of the for statement of line 150
dict_next(d, it) ==
    IF it.used # dict_used(d) THEN [kind |-> "RuntimeError"]
    ELSE LET rest == {i \in (it.pos + 1)..Len(d) : d[i] # Hole}
         IN IF rest = {} THEN [kind |-> "StopIteration"]
            ELSE IF it.len = 0 THEN [kind |-> "RuntimeError"]
            ELSE [kind |-> "value", value |-> d[Min(rest)],
                  it |-> [it EXCEPT !.pos = Min(rest), !.len = @ - 1]]

(* ============================ DtmfProcessor =========================== *)
\* a detector for which silence passes the threshold
detect_dtmf_noisy(f) ==
    IF f.kind = "tone5" THEN "5" ELSE "4"

\* _detect_dtmf, lines 125-157: a frame's kind stands for its classification
detect_dtmf(f) ==
    IF f.kind = "tone4" THEN "4" ELSE IF f.kind = "tone5" THEN "5" ELSE None

\* _handle_digit_end, lines 101-123.  With no webhook manager the dispatch of
\* line 111 raises before the state is cleared.
handle_digit_end(s, call_id, end_time) ==
    IF s.start = NoTime \/ s.start = 0 THEN [st |-> s, raised |-> FALSE]
    ELSE LET duration_ms == end_time - s.start
         IN IF duration_ms >= min_duration_ms /\ webhook_manager = None
            THEN [st |-> s, raised |-> TRUE]
            ELSE [st |-> [s EXCEPT
                            !.disp = IF duration_ms >= min_duration_ms
                                     THEN Append(@, [digit |-> s.digit, call_id |-> call_id,
                                                     duration_ms |-> duration_ms])
                                     ELSE @,
                            !.digit = None, !.start = NoTime],
                  raised |-> FALSE]

\* process_audio that starts a digit without recording when
process_audio_no_start(s, f, call_id, t) ==
    LET digit == detect_dtmf(f)
    IN IF digit # None
       THEN IF s.digit # digit
            THEN LET e == IF s.digit # None THEN handle_digit_end(s, call_id, t)
                          ELSE [st |-> s, raised |-> FALSE]
                 IN IF e.raised THEN e
                    ELSE [st |-> [e.st EXCEPT !.digit = digit], raised |-> FALSE]
            ELSE [st |-> s, raised |-> FALSE]
       ELSE IF s.digit # None THEN [st |-> s, raised |-> TRUE]
       ELSE [st |-> s, raised |-> FALSE]

\* process_audio, lines 72-99.  current_time is assigned only when a digit was
\* detected (line 80), so line 95 raises; line 99 turns every exception into
\* AudioError.
process_audio(s, f, call_id, t) ==
    LET digit == detect_dtmf(f)
    IN IF digit # None
       THEN IF s.digit # digit
            THEN LET e == IF s.digit # None THEN handle_digit_end(s, call_id, t)
                          ELSE [st |-> s, raised |-> FALSE]
                 IN IF e.raised THEN e
                    ELSE [st |-> [e.st EXCEPT !.digit = digit, !.start = t],
                          raised |-> FALSE]
            ELSE [st |-> s, raised |-> FALSE]
       ELSE IF s.digit # None THEN [st |-> s, raised |-> TRUE]
       ELSE [st |-> s, raised |-> FALSE]

(* ============================ AudioProcessor ========================== *)
\* the bytes process_frame returns for a frame: as many as it was given
Processed(f) == [id |-> f.id, kind |-> IF f.kind = "empty" THEN "empty" ELSE "processed"]

\* process_frame that swallows the failure: no count, None returned
process_frame_swallow(s, audio_data, call_id, t) ==
    LET d == process_audio(s, audio_data, call_id, t)
    IN IF d.raised
       THEN [st |-> d.st, result |-> NoFrame]
       ELSE [st |-> d.st, result |-> Processed(audio_data)]

\* process_frame, lines 106-125
process_frame(s, audio_data, call_id, t) ==
    LET d == process_audio(s, audio_data, call_id, t)
    IN IF d.raised
       THEN [st |-> [d.st EXCEPT !.df = @ + 1], result |-> AudioError]
       ELSE [st |-> d.st, result |-> Processed(audio_data)]

(* One uninterrupted run of _processing_loop, lines 131-154, from the test *)
(* of "while self._running" up to the next suspension: in read_raw when    *)
(* the raw queue is empty (the wait of line 124, which wait_for makes a    *)
(* suspension even when the event is set), or in the await of a handler.   *)
(* It returns the state and where the task is suspended.                   *)
Halt(s, pc) == [st |-> s, pc |-> pc, it |-> NoIter, cur |-> NoFrame]

RECURSIVE loop_iterate(_)
RECURSIVE fan_out(_, _, _)

\* a loop in which the failure of a frame reaches the outer handler of line 158
loop_body_fatal(rd) ==
    IF rd.data = NoFrame \/ rd.data.kind = "empty" THEN loop_iterate(rd.st)
    ELSE LET r == process_frame(rd.st, rd.data, "default", now)
         IN IF r.result = AudioError
            THEN Halt([r.st EXCEPT !.df = @ + 1], "done")
            ELSE fan_out([write_processed(r.st, r.result) EXCEPT !.pf = @ + 1],
                         dict_values_iter(stream_handlers), r.result)

\* lines 134-147: what the loop does with the result of read_raw
loop_body(rd) ==
    IF rd.data = NoFrame \/ rd.data.kind = "empty" THEN loop_iterate(rd.st)
    ELSE LET r == process_frame(rd.st, rd.data, "default", now)
         IN IF r.result = AudioError
            THEN loop_iterate([r.st EXCEPT !.df = @ + 1])
            ELSE fan_out([write_processed(r.st, r.result) EXCEPT !.pf = @ + 1],
                         dict_values_iter(stream_handlers), r.result)

\* lines 131-133
loop_iterate(s) ==
    IF ~running THEN Halt(s, "done")
    ELSE IF s.raw = <<>> THEN Halt(s, IF s.avail THEN "woken" ELSE "waiting")
    ELSE loop_body(take_raw(s))

\* lines 150-154, and the handler of line 158 for the RuntimeError of the for
\* statement, which ends the loop with _running still set
fan_out(s, it, processed) ==
    LET nx == dict_next(stream_handlers, it)
    IN IF nx.kind = "RuntimeError" THEN Halt(s, "done")
       ELSE IF nx.kind = "StopIteration" THEN loop_iterate(s)
       ELSE [st |-> [s EXCEPT !.deliv[nx.value] = Append(@, processed.id)],
             pc |-> "handler", it |-> nx.it, cur |-> processed]

(* ======================= state and its updates ======================== *)
Cur == [raw |-> raw_buffer, proc |-> processed_buffer, avail |-> data_available,
        ovf |-> overflow_count, udf |-> underflow_count, woke |-> FALSE,
        written |-> written, pf |-> processed_frames, df |-> dropped_frames,
        digit |-> current_digit, start |-> digit_start_time, disp |-> dispatched,
        deliv |-> delivered]

\* Event.set() resolves the future of every task waiting on the event
WakeAll(f, woke) ==
    [x \in DOMAIN f |-> IF woke /\ f[x].pc = "waiting" THEN [f[x] EXCEPT !.pc = "woken"] ELSE f[x]]

Commit(s) ==
    /\ raw_buffer' = s.raw
    /\ processed_buffer' = s.proc
    /\ data_available' = s.avail
    /\ overflow_count' = s.ovf
    /\ underflow_count' = s.udf
    /\ written' = s.written
    /\ processed_frames' = s.pf
    /\ dropped_frames' = s.df
    /\ current_digit' = s.digit
    /\ digit_start_time' = s.start
    /\ dispatched' = s.disp
    /\ delivered' = s.deliv

Absent == [pc |-> "absent", cancel |-> FALSE, it |-> NoIter, cur |-> NoFrame]
Created == [Absent EXCEPT !.pc = "created"]
\* a caller that has not called yet
NotCalled == [id |-> 0, kind |-> "-"]
Idle == [pc |-> "idle", queue |-> "raw", timeout |-> None, result |-> NotCalled]
Suspended(k) == k.pc \in {"created", "waiting", "woken", "handler"}
Iterating == \E t \in TaskIds : tasks[t].pc = "handler"
LiveTasks == {t \in TaskIds : tasks[t].pc \notin {"absent", "done"}}

(* ====================== callers of the AudioBuffer ==================== *)
Timeouts == {None, "T"}
take(s, q) == IF q = "raw" THEN take_raw(s) ELSE take_processed(s)

\* read_raw / read_processed called with the given timeout, up to its return or
\* its suspension in _wait_for_data (lines 123-125, 162-164 and 194-202): with
\* timeout None and the event set, Event.wait() returns without suspending
read_begin(s, rd, q, timeout) ==
    IF (IF q = "raw" THEN s.raw ELSE s.proc) # <<>> \/ (timeout = None /\ s.avail)
    THEN LET r == take(s, q)
         IN [st |-> r.st, rd |-> [rd EXCEPT !.queue = q, !.timeout = timeout, !.result = r.data]]
    ELSE [st |-> s,
          rd |-> [pc |-> IF s.avail THEN "woken" ELSE "waiting", queue |-> q,
                  timeout |-> timeout, result |-> NoFrame]]

\* _wait_for_data returned True: the rest of the read, under the lock
read_resume(s, rd) ==
    LET r == take(s, rd.queue)
    IN [st |-> r.st, rd |-> [rd EXCEPT !.pc = "idle", !.result = r.data]]

\* asyncio.TimeoutError, lines 204-205 and 124-125: the read returns None
read_timeout(s, rd) == [st |-> s, rd |-> [rd EXCEPT !.pc = "idle", !.result = NoFrame]]

othersOfBuffer == <<procVars, webhook_manager, now, hwVars, detectorVars, extVars>>

ReadBegin(r, q, timeout) ==
    /\ reader[r].pc = "idle"
    /\ underflow_count < MaxCount
    /\ LET o == read_begin(Cur, reader[r], q, timeout)
       IN /\ Commit(o.st)
          /\ reader' = [reader EXCEPT ![r] = o.rd]
    /\ touched' = TRUE
    /\ UNCHANGED <<othersOfBuffer, next_id>>

ReadResume(r) ==
    /\ reader[r].pc = "woken"
    /\ LET o == read_resume(Cur, reader[r])
       IN /\ Commit(o.st)
          /\ reader' = [reader EXCEPT ![r] = o.rd]
    /\ UNCHANGED <<othersOfBuffer, next_id, touched>>

ReadTimeout(r) ==
    /\ reader[r].pc = "waiting"
    /\ reader[r].timeout # None
    /\ LET o == read_timeout(Cur, reader[r])
       IN /\ Commit(o.st)
          /\ reader' = [reader EXCEPT ![r] = o.rd]
    /\ UNCHANGED <<othersOfBuffer, next_id, touched>>

\* a producer calls write_raw with the next frame
WriteRaw(kind) ==
    /\ next_id <= MaxFrames
    /\ LET s == write_raw(Cur, [id |-> next_id, kind |-> kind])
       IN /\ Commit(s)
          /\ reader' = WakeAll(reader, s.woke)
          /\ tasks' = WakeAll(tasks, s.woke)
    /\ next_id' = next_id + 1
    /\ UNCHANGED <<running, processing_task, stop_pc, stream_handlers, pf_result,
                   webhook_manager, now, touched, hwVars, detectorVars, extVars>>

\* a caller other than the loop calls write_processed
WriteProcessed ==
    /\ next_id <= MaxFrames
    /\ LET s == write_processed(Cur, [id |-> next_id, kind |-> "processed"])
       IN /\ Commit(s)
          /\ reader' = WakeAll(reader, s.woke)
          /\ tasks' = WakeAll(tasks, s.woke)
    /\ next_id' = next_id + 1
    /\ touched' = TRUE
    /\ UNCHANGED <<running, processing_task, stop_pc, stream_handlers, pf_result,
                   webhook_manager, now, hwVars, detectorVars, extVars>>

\* a caller calls clear
Clear ==
    /\ Commit(clear(Cur))
    /\ touched' = TRUE
    /\ UNCHANGED <<othersOfBuffer, reader, next_id>>

(* ================== AudioProcessor: start, stop, loop ================= *)
CallIds == {"default", "call2"}
Lifecycle == [running |-> running, task |-> processing_task, tasks |-> tasks,
              stop_pc |-> stop_pc]
FreeTask(tk) == Min({t \in TaskIds : tk[t].pc = "absent"})

\* start without the test of line 68: every call creates a task
start_unguarded(p) ==
    [p EXCEPT !.running = TRUE, !.task = FreeTask(p.tasks),
              !.tasks[FreeTask(p.tasks)] = Created]

\* start, lines 68-72
start(p) ==
    IF p.running THEN p
    ELSE [p EXCEPT !.running = TRUE, !.task = FreeTask(p.tasks),
                   !.tasks[FreeTask(p.tasks)] = Created]

\* stop that neither cancels nor awaits the task
stop_without_cancel(p) ==
    IF ~p.running THEN [p |-> p, cleared |-> FALSE]
    ELSE [p |-> [p EXCEPT !.running = FALSE, !.task = NoTask], cleared |-> TRUE]

\* stop, lines 77-84, up to the await of the cancelled task; awaiting a task that
\* has already ended does not suspend, and stop then runs to its end (cleared)
stop(p) ==
    IF ~p.running THEN [p |-> p, cleared |-> FALSE]
    ELSE IF p.task = NoTask
    THEN [p |-> [p EXCEPT !.running = FALSE], cleared |-> TRUE]
    ELSE IF p.tasks[p.task].pc = "done"
    THEN [p |-> [p EXCEPT !.running = FALSE, !.task = NoTask, !.tasks[p.task] = Absent],
          cleared |-> TRUE]
    ELSE [p |-> [p EXCEPT !.running = FALSE, !.tasks[p.task].cancel = TRUE,
                          !.stop_pc = "awaiting"],
          cleared |-> FALSE]

\* stop, lines 85-87, once the cancelled task has ended
stop_resume(p) ==
    [p EXCEPT !.task = NoTask, !.tasks[p.task] = Absent, !.stop_pc = "idle"]

SetLifecycle(p) ==
    /\ running' = p.running
    /\ processing_task' = p.task
    /\ tasks' = p.tasks
    /\ stop_pc' = p.stop_pc

\* start() and stop() are called one at a time (the component does not promise
\* reentrancy): neither is called while a stop is suspended
Start ==
    /\ stop_pc = "idle"
    /\ \E t \in TaskIds : tasks[t].pc = "absent"
    /\ SetLifecycle(start(Lifecycle))
    /\ UNCHANGED <<bufVars, reader, stream_handlers, processed_frames, dropped_frames,
                   pf_result, dtmfVars, now, next_id, histVars, hwVars, detectorVars, extVars>>

Stop ==
    /\ stop_pc = "idle"
    /\ LET o == stop(Lifecycle)
       IN /\ SetLifecycle(o.p)
          /\ IF o.cleared
             THEN Commit(clear(Cur)) /\ touched' = TRUE
             ELSE UNCHANGED <<bufVars, processed_frames, dropped_frames, dtmfVars,
                              histVars>>
    /\ UNCHANGED <<reader, stream_handlers, pf_result, webhook_manager, now, next_id,
                   hwVars, detectorVars, extVars>>

\* lines 85-89
StopResume ==
    /\ stop_pc = "awaiting"
    /\ tasks[processing_task].pc = "done"
    /\ SetLifecycle(stop_resume(Lifecycle))
    /\ Commit(clear(Cur))
    /\ touched' = TRUE
    /\ UNCHANGED <<reader, stream_handlers, pf_result, webhook_manager, now, next_id,
                   hwVars, detectorVars, extVars>>

\* one run of the loop task t, ending suspended or ended as o says
LoopRun(t, o) ==
    /\ Commit(o.st)
    /\ tasks' = [WakeAll(tasks, o.st.woke) EXCEPT
                   ![t] = [pc |-> o.pc, cancel |-> FALSE, it |-> o.it, cur |-> o.cur]]
    /\ reader' = WakeAll(reader, o.st.woke)
    /\ stream_handlers' = Settle(stream_handlers, o.pc = "handler")
    /\ touched' = TRUE
    /\ UNCHANGED <<running, processing_task, stop_pc, pf_result,
                   webhook_manager, now, next_id, hwVars, detectorVars, extVars>>

\* the task runs for the first time
LoopStart(t) ==
    /\ tasks[t].pc = "created" /\ ~tasks[t].cancel
    /\ LoopRun(t, loop_iterate(Cur))

\* _wait_for_data returned True in read_raw (line 124)
LoopWake(t) ==
    /\ tasks[t].pc = "woken" /\ ~tasks[t].cancel
    /\ underflow_count < MaxCount
    /\ LoopRun(t, loop_body(take_raw(Cur)))

\* the 0.1 s of line 133 passed with the event unset: read_raw returned None
LoopTimeout(t) ==
    /\ tasks[t].pc = "waiting" /\ ~tasks[t].cancel
    /\ LoopRun(t, loop_iterate(Cur))

\* the awaited handler returned or raised (lines 151-154)
HandlerReturn(t) ==
    /\ tasks[t].pc = "handler" /\ ~tasks[t].cancel
    /\ LoopRun(t, fan_out(Cur, tasks[t].it, tasks[t].cur))

\* task.cancel(): CancelledError is thrown into the task where it is suspended
\* and ends the loop (line 156)
LoopCancelled(t) ==
    /\ tasks[t].cancel /\ Suspended(tasks[t])
    /\ tasks' = [tasks EXCEPT ![t] = [Absent EXCEPT !.pc = "done"]]
    /\ stream_handlers' = Settle(stream_handlers, FALSE)
    /\ UNCHANGED <<bufVars, reader, running, processing_task, stop_pc,
                   processed_frames, dropped_frames, pf_result, dtmfVars, now, next_id,
                   histVars, hwVars, detectorVars, extVars>>

AddHandler(h) ==
    /\ stream_handlers' = Settle(add_stream_handler(stream_handlers, h), Iterating)
    /\ UNCHANGED <<bufVars, reader, running, processing_task, tasks, stop_pc,
                   processed_frames, dropped_frames, pf_result, dtmfVars, now, next_id,
                   histVars, hwVars, detectorVars, extVars>>

RemoveHandler(h) ==
    /\ stream_handlers' = Settle(remove_stream_handler(stream_handlers, h), Iterating)
    /\ UNCHANGED <<bufVars, reader, running, processing_task, tasks, stop_pc,
                   processed_frames, dropped_frames, pf_result, dtmfVars, now, next_id,
                   histVars, hwVars, detectorVars, extVars>>

\* a caller other than the loop calls process_frame with the next frame
ProcessFrameCall(kind, call_id) ==
    /\ next_id <= MaxFrames
    /\ LET r == process_frame(Cur, [id |-> next_id, kind |-> kind], call_id, now)
       IN /\ Commit(r.st)
          /\ pf_result' = r.result
    /\ next_id' = next_id + 1
    /\ UNCHANGED <<reader, running, processing_task, tasks, stop_pc, stream_handlers,
                   webhook_manager, now, touched, hwVars, detectorVars, extVars>>

\* the event loop's clock advances by one frame period
Tick ==
    /\ now + FrameMs <= MaxTime
    /\ now' = now + FrameMs
    /\ UNCHANGED <<bufVars, reader, procVars, dtmfVars, next_id, histVars, hwVars, detectorVars, extVars>>

(* ================ hardware/audio_buffer.py AudioBuffer ================= *)
(* Every method takes the threading lock for its whole body and never      *)
(* awaits inside it: a call is one step.                                   *)
\* __init__, line 48 and line 51: the deque's maxlen
samples_per_frame == hw_max_size \div (channels * sample_width)
HwNoResult == [kind |-> "none", written |-> 0, dropped |-> 0, data |-> <<>>]
Hw == [buf |-> hw_buffer, stats |-> hw_stats, result |-> hw_result]

\* write, lines 104-157; popleft on the emptied deque (line 124) raises, and
\* line 157 turns that into AudioBufferError
hw_write(h, samples) ==
    LET n == Len(samples)
        to_remove == Len(h.buf) + n - samples_per_frame
    IN IF Len(h.buf) + n > samples_per_frame
       THEN IF overflow_strategy = "drop"
            THEN [h EXCEPT !.stats.dropped_samples = @ + n, !.stats.overflows = @ + 1,
                           !.result = [HwNoResult EXCEPT !.kind = "written", !.dropped = n]]
            ELSE IF to_remove > Len(h.buf)
            THEN [h EXCEPT !.buf = <<>>, !.result = [HwNoResult EXCEPT !.kind = "raised"]]
            ELSE [h EXCEPT !.buf = SubSeq(h.buf, to_remove + 1, Len(h.buf)) \o samples,
                           !.stats.dropped_samples = @ + to_remove,
                           !.stats.overflows = @ + 1,
                           !.stats.total_writes = @ + 1,
                           !.result = [HwNoResult EXCEPT !.kind = "written", !.written = n,
                                                        !.dropped = to_remove]]
       ELSE [h EXCEPT !.buf = @ \o samples, !.stats.total_writes = @ + 1,
                      !.result = [HwNoResult EXCEPT !.kind = "written", !.written = n]]

\* read, lines 177-206
hw_read(h, samples) ==
    IF Len(h.buf) < samples
    THEN [h EXCEPT !.stats.underflows = @ + 1, !.result = [HwNoResult EXCEPT !.kind = "empty"]]
    ELSE [h EXCEPT !.buf = SubSeq(h.buf, samples + 1, Len(h.buf)),
                   !.stats.total_reads = @ + 1,
                   !.result = [HwNoResult EXCEPT !.kind = "read",
                                                !.data = SubSeq(h.buf, 1, samples)]]

\* clear, lines 219-222
hw_clear(h) == [h EXCEPT !.buf = <<>>, !.result = HwNoResult]

SetHw(h) ==
    /\ hw_buffer' = h.buf
    /\ hw_stats' = h.stats
    /\ hw_result' = h.result

\* a producer writes n samples, all carrying the number of the write
HwWrite(n) ==
    /\ hw_lock.holder = None
    /\ next_id <= MaxFrames
    /\ SetHw(hw_write(Hw, [i \in 1..n |-> next_id]))
    /\ next_id' = next_id + 1
    /\ UNCHANGED <<bufVars, reader, procVars, dtmfVars, now, histVars, overflow_strategy,
                   instance, detectorVars, extVars>>

HwRead(n) ==
    /\ hw_lock.holder = None
    /\ hw_stats.underflows < MaxCount
    /\ SetHw(hw_read(Hw, n))
    /\ touched' = TRUE
    /\ UNCHANGED <<bufVars, reader, procVars, dtmfVars, now, next_id, written, delivered,
                   overflow_strategy, instance,
                   detectorVars, extVars>>

HwClear ==
    /\ hw_lock.holder = None
    /\ SetHw(hw_clear(Hw))
    /\ touched' = TRUE
    /\ UNCHANGED <<bufVars, reader, procVars, dtmfVars, now, next_id, written, delivered,
                   overflow_strategy, instance,
                   detectorVars, extVars>>

(* ================= integrations/webhooks.py WebhookManager ============= *)
WebhookManager == "WebhookManager"
Sink == [queue |-> webhook_queue, sequence |-> sequence]

\* _get_next_sequence, lines 114-121: the counter starts at 0 (line 119)
get_next_sequence(k) == [k EXCEPT !.sequence = @ + 1]

\* dispatch_dtmf, lines 38-57.  Neither await suspends: _get_next_sequence has
\* no await of its own and the queue is unbounded, so put() returns at once.
\* The wall-clock timestamp of the event is left out.
dispatch_dtmf(k, digit, call_id, duration_ms) ==
    LET k1 == get_next_sequence(k)
    IN [k1 EXCEPT !.queue = Append(@, [type |-> "dtmf", digit |-> digit,
                                       call_id |-> call_id,
                                       sequence |-> k1.sequence,
                                       duration_ms |-> duration_ms])]

\* the dispatch_dtmf tasks created by dtmf.py line 111 and not yet run
Pending == {i \in 1..Len(dispatched) : i \notin ran}

\* the event loop runs the newest task first
next_ready_newest(created, done) ==
    CHOOSE i \in 1..Len(created) :
        i \notin done /\ \A j \in 1..Len(created) : j \notin done => j <= i

\* the event loop runs ready tasks in the order create_task scheduled them
next_ready(created, done) ==
    CHOOSE i \in 1..Len(created) :
        i \notin done /\ \A j \in 1..Len(created) : j \notin done => i <= j

\* the event loop runs the next dispatch_dtmf task, to its end
DispatchRun ==
    /\ Pending # {}
    /\ LET i == next_ready(dispatched, ran)
           e == dispatched[i]
           k == dispatch_dtmf(Sink, e.digit, e.call_id, e.duration_ms)
       IN /\ webhook_queue' = k.queue
          /\ sequence' = k.sequence
          /\ ran' = ran \cup {i}
    /\ UNCHANGED <<bufVars, reader, procVars, dtmfVars, now, next_id, histVars, hwVars,
                   callVars, extVars>>

(* ===================== a DtmfProcessor fed directly ==================== *)
DtmfKinds == {"silence", "tone4", "tone5"}
NotRun == "-"
Ok == "ok"
Raised == "AudioError"

\* a caller hands the next frame of call call_id to process_audio
ProcessAudio(kind, call_id) ==
    /\ next_id <= MaxFrames
    /\ LET d == process_audio(Cur, [id |-> next_id, kind |-> kind], call_id, now)
       IN /\ Commit(d.st)
          /\ pa_result' = IF d.raised THEN Raised ELSE Ok
          /\ digit_call_id' =
                IF d.st.digit = current_digit /\ d.st.start = digit_start_time
                THEN digit_call_id
                ELSE IF d.st.digit = None THEN None ELSE call_id
    /\ fed' = Append(fed, [kind |-> kind, call_id |-> call_id, time |-> now])
    /\ next_id' = next_id + 1
    /\ UNCHANGED <<reader, running, processing_task, tasks, stop_pc, stream_handlers,
                   pf_result, webhook_manager, now, touched, hwVars, sinkVars, extVars>>

(* ========================== specifications ============================ *)
InitBuffer ==
    /\ raw_buffer = <<>> /\ processed_buffer = <<>> /\ data_available = FALSE
    /\ overflow_count = 0 /\ underflow_count = 0
    /\ reader = [r \in Readers |-> Idle]
    /\ written = <<>> /\ touched = FALSE /\ next_id = 1

InitProcessor ==
    /\ running = FALSE /\ processing_task = NoTask
    /\ tasks = [t \in TaskIds |-> Absent]
    /\ stop_pc = "idle" /\ stream_handlers = <<>>
    /\ processed_frames = 0 /\ dropped_frames = 0 /\ pf_result = NoFrame
    /\ current_digit = None /\ digit_start_time = NoTime
    /\ webhook_manager = None /\ dispatched = <<>>
    /\ delivered = [h \in HandlerIds |-> <<>>]
    /\ now = FrameMs

InitHw ==
    /\ hw_buffer = <<>> /\ overflow_strategy = "drop" /\ hw_result = HwNoResult
    /\ instance = "core"
    /\ hw_stats = [total_writes |-> 0, total_reads |-> 0, overflows |-> 0,
                   underflows |-> 0, dropped_samples |-> 0]

InitDetector ==
    /\ ran = {} /\ webhook_queue = <<>> /\ sequence = 0
    /\ pa_result = NotRun /\ fed = <<>> /\ digit_call_id = None

\* the objects no run of the pipeline constructs differently
InitPure == codec = NoCodec /\ classifier = NoClassifier /\ transform = NoTransform
InitState == phone = NoPhone /\ callmgr = NoCallMgr
InitSvc ==
    /\ hw_lock = NoLock /\ sip = NoSip /\ dispatcher = NoDispatcher
    /\ delivery_manager = NoDeliveryManager
InitExt ==
    /\ hw_max_size = MaxBytes /\ InitSvc
    /\ active_connections = {} /\ stream_task = None
    /\ InitPure /\ InitState

Init == InitBuffer /\ InitProcessor /\ InitHw /\ InitDetector /\ InitExt

PipeKinds == {"silence", "tone4", "empty"}
PipeHandlers == {"h1"}

Next ==
    \/ \E k \in PipeKinds : WriteRaw(k)
    \/ Start
    \/ Stop
    \/ StopResume
    \/ \E t \in TaskIds : LoopStart(t)
    \/ \E t \in TaskIds : LoopWake(t)
    \/ \E t \in TaskIds : LoopTimeout(t)
    \/ \E t \in TaskIds : HandlerReturn(t)
    \/ \E t \in TaskIds : LoopCancelled(t)
    \/ \E h \in PipeHandlers : AddHandler(h)
    \/ \E h \in PipeHandlers : RemoveHandler(h)
    \/ ReadBegin("r1", "processed", "T")
    \/ ReadResume("r1")
    \/ ReadTimeout("r1")

Spec == Init /\ [][Next]_vars

(* The buffer interface on its own: a run constructs one buffer, the asyncio  *)
(* one or the sample buffer with either overflow strategy, and its callers    *)
(* use it in any interleaving.                                                *)
InitBuf ==
    /\ InitBuffer /\ InitProcessor /\ InitDetector /\ InitExt
    /\ hw_buffer = <<>> /\ hw_result = HwNoResult
    /\ hw_stats = [total_writes |-> 0, total_reads |-> 0, overflows |-> 0,
                   underflows |-> 0, dropped_samples |-> 0]
    /\ \/ instance = "core" /\ overflow_strategy = "drop"
       \/ instance = "hw" /\ overflow_strategy \in {"drop", "overwrite"}

NextBuf ==
    \/ instance = "core" /\ WriteRaw("silence")
    \/ instance = "core" /\ WriteProcessed
    \/ instance = "core" /\ \E r \in Readers, q \in {"raw", "processed"}, timeout \in Timeouts :
                               ReadBegin(r, q, timeout)
    \/ instance = "core" /\ \E r \in Readers : ReadResume(r)
    \/ instance = "core" /\ \E r \in Readers : ReadTimeout(r)
    \/ instance = "core" /\ Clear
    \/ instance = "hw" /\ \E n \in 1..MaxWrite : HwWrite(n)
    \/ instance = "hw" /\ \E n \in 1..MaxWrite : HwRead(n)
    \/ instance = "hw" /\ HwClear

SpecBuf == InitBuf /\ [][NextBuf]_vars

(* The fan-out to the stream handlers on its own: up to three handlers are *)
(* added and removed while the loop runs and is suspended inside handlers. *)
NextFanout ==
    \/ next_id <= FanoutFrames /\ WriteRaw("silence")
    \/ Start
    \/ Stop
    \/ StopResume
    \/ \E t \in TaskIds : LoopStart(t)
    \/ \E t \in TaskIds : LoopWake(t)
    \/ \E t \in TaskIds : LoopTimeout(t)
    \/ \E t \in TaskIds : HandlerReturn(t)
    \/ \E t \in TaskIds : LoopCancelled(t)
    \/ \E h \in HandlerIds : AddHandler(h)
    \/ \E h \in HandlerIds : RemoveHandler(h)

SpecFanout == Init /\ [][NextFanout]_vars

(* process_frame called frame by frame by a caller of its own (the         *)
(* WebSocket path), with the clock advancing between calls.                *)
NextFrame ==
    \/ \E k \in FrameKinds, c \in CallIds : ProcessFrameCall(k, c)
    \/ Tick

SpecFrame == Init /\ [][NextFrame]_vars

(* A DtmfProcessor of its own, constructed with the WebhookManager of       *)
(* integrations/webhooks.py or, as AudioProcessor does (line 43), with     *)
(* None; frames of two calls are fed to it and the clock advances.         *)
InitDtmf ==
    /\ InitBuffer /\ InitHw /\ InitDetector /\ InitExt
    /\ running = FALSE /\ processing_task = NoTask
    /\ tasks = [t \in TaskIds |-> Absent]
    /\ stop_pc = "idle" /\ stream_handlers = <<>>
    /\ processed_frames = 0 /\ dropped_frames = 0 /\ pf_result = NoFrame
    /\ current_digit = None /\ digit_start_time = NoTime
    /\ webhook_manager \in {None, WebhookManager} /\ dispatched = <<>>
    /\ delivered = [h \in HandlerIds |-> <<>>]
    /\ now = FrameMs

NextDtmf ==
    \/ \E k \in DtmfKinds, c \in CallIds : ProcessAudio(k, c)
    \/ Tick
    \/ DispatchRun

SpecDtmf == InitDtmf /\ [][NextDtmf]_vars

(* ============ hardware/audio_buffer.py AudioBuffer.__init__ ============ *)
\* __init__, lines 42-63: the sizes are stored as given, the capacity is the
\* floor of the quotient, and nothing is validated
hw_init(max_size_bytes, strategy) ==
    [max_size |-> max_size_bytes, strategy |-> strategy, buf |-> <<>>, lock |-> NoLock,
     stats |-> [total_writes |-> 0, total_reads |-> 0, overflows |-> 0,
                underflows |-> 0, dropped_samples |-> 0]]

\* a caller constructs the sample buffer
HwInit(max_size_bytes, strategy) ==
    /\ instance = None
    /\ LET o == hw_init(max_size_bytes, strategy)
       IN /\ hw_max_size' = o.max_size /\ overflow_strategy' = o.strategy
          /\ hw_buffer' = o.buf /\ hw_stats' = o.stats /\ hw_lock' = o.lock
    /\ instance' = "hw"
    /\ UNCHANGED <<bufVars, reader, procVars, dtmfVars, now, next_id, histVars,
                   hw_result, detectorVars, lockOthers, wsVars, pureVars, stateVars>>

(* The sample buffer from its construction on: a run constructs it with any *)
(* byte size up to MaxBytes and either strategy, and then uses it.          *)
InitHwSize ==
    /\ InitBuffer /\ InitProcessor /\ InitDetector
    /\ active_connections = {} /\ stream_task = None /\ InitPure /\ InitState
    /\ InitSvc /\ instance = None /\ hw_max_size = 0 /\ overflow_strategy = "drop"
    /\ hw_buffer = <<>> /\ hw_result = HwNoResult
    /\ hw_stats = [total_writes |-> 0, total_reads |-> 0, overflows |-> 0,
                   underflows |-> 0, dropped_samples |-> 0]

NextHwSize ==
    \/ \E b \in 0..MaxBytes, s \in {"drop", "overwrite"} : HwInit(b, s)
    \/ instance = "hw" /\ \E n \in 1..MaxWrite : HwWrite(n)
    \/ instance = "hw" /\ \E n \in 1..MaxWrite : HwRead(n)
    \/ instance = "hw" /\ HwClear

SpecHwSize == InitHwSize /\ [][NextHwSize]_vars

(* ========= hardware/audio_buffer.py AudioBuffer: the mutex ============= *)
(* self._lock is a threading.Lock (line 52): it is not reentrant, and a    *)
(* thread that asks for it while holding it waits for itself.  write, read *)
(* and clear take it once for their whole body (HwWrite, HwRead, HwClear). *)
\* the property available_samples, lines 73-77: takes the mutex, returns
available_samples(h) == Len(h.buf)
\* the property free_space, lines 79-83: takes the mutex, returns
free_space(h) == samples_per_frame - Len(h.buf)

\* a thread reads one of the two properties: it needs the mutex free, and
\* gives it back
HwProperty(t) ==
    /\ hw_lock.holder = None /\ t \notin hw_lock.waiting
    /\ hw_result' = [HwNoResult EXCEPT !.kind = "property",
                                       !.written = available_samples(Hw),
                                       !.dropped = free_space(Hw)]
    /\ touched' = TRUE
    /\ UNCHANGED <<bufVars, reader, procVars, dtmfVars, now, next_id, written, delivered,
                   hw_buffer, hw_stats, overflow_strategy, instance, detectorVars, extVars>>

\* get_stats, lines 224-234: takes the mutex (line 226) and, holding it,
\* evaluates self.free_space (line 231), which asks for the mutex again
HwGetStats(t) ==
    /\ hw_lock.holder = None /\ t \notin hw_lock.waiting
    /\ hw_lock' = [holder |-> t, waiting |-> hw_lock.waiting \cup {t}]
    /\ UNCHANGED <<bufVars, reader, procVars, dtmfVars, now, next_id, histVars, hwVars,
                   detectorVars, hw_max_size, lockOthers, wsVars, pureVars, stateVars>>

\* a thread calls any method while another holds the mutex: it waits
HwWait(t) ==
    /\ hw_lock.holder # None /\ t \notin hw_lock.waiting
    /\ hw_lock' = [hw_lock EXCEPT !.waiting = @ \cup {t}]
    /\ UNCHANGED <<bufVars, reader, procVars, dtmfVars, now, next_id, histVars, hwVars,
                   detectorVars, hw_max_size, lockOthers, wsVars, pureVars, stateVars>>

(* The sample buffer and its mutex: it is constructed and then called from  *)
(* two threads.                                                             *)
NextHwLock ==
    \/ \E b \in 0..MaxBytes, s \in {"drop", "overwrite"} : HwInit(b, s)
    \/ instance = "hw" /\ \E n \in 1..MaxWrite : HwWrite(n)
    \/ instance = "hw" /\ \E n \in 1..MaxWrite : HwRead(n)
    \/ instance = "hw" /\ HwClear
    \/ instance = "hw" /\ \E t \in HwThreads : HwProperty(t)
    \/ instance = "hw" /\ \E t \in HwThreads : HwGetStats(t)
    \/ instance = "hw" /\ \E t \in HwThreads : HwWait(t)

SpecHwLock == InitHwSize /\ [][NextHwLock]_vars

(* ============= api/websocket/audio.py AudioStreamManager ============== *)
(* connect and disconnect have one await, of AudioProcessor.start, which   *)
(* has no await of its own: each call is one step.                         *)
WebSockets == {1, 2, 3}
\* f"ws_{id(websocket)}", line 60: one handler id per websocket object
ws_handler_id(websocket) == <<"h1", "h2", "h3">>[websocket]
StreamTask == "_stream_audio"

\* connect, lines 46-62
Connect(websocket) ==
    /\ stop_pc = "idle"
    /\ active_connections' = active_connections \cup {websocket}
    /\ SetLifecycle(start(Lifecycle))
    /\ stream_task' = IF stream_task = None THEN StreamTask ELSE stream_task
    /\ stream_handlers' =
          Settle(add_stream_handler(stream_handlers, ws_handler_id(websocket)), Iterating)
    /\ UNCHANGED <<bufVars, reader, processed_frames, dropped_frames, pf_result, dtmfVars,
                   now, next_id, histVars, hwVars, detectorVars, hw_max_size, svcVars, pureVars,
                   stateVars>>

\* disconnect, lines 74-79, of a websocket that is connected
Disconnect(websocket) ==
    /\ websocket \in active_connections
    /\ active_connections' = active_connections \ {websocket}
    /\ stream_task' = IF active_connections' = {} /\ stream_task # None
                      THEN None ELSE stream_task
    /\ UNCHANGED <<bufVars, reader, procVars, dtmfVars, now, next_id, histVars, hwVars,
                   detectorVars, hw_max_size, svcVars, pureVars, stateVars>>

(* The streaming manager with its pipeline: consumers connect and          *)
(* disconnect while frames arrive.                                         *)
NextWs ==
    \/ \E w \in WebSockets : Connect(w)
    \/ \E w \in WebSockets : Disconnect(w)
    \/ WriteRaw("silence")

SpecWs == Init /\ [][NextWs]_vars

(* ======== core/audio_processor.py: the G.711 mu-law conversions ======== *)
(* NumPy keeps the element type of an array through arithmetic with Python *)
(* integers: the arrays of _ulaw_to_pcm are uint8 and every operation on   *)
(* them is taken modulo 256; those of _pcm_to_ulaw are int16.  A sample is *)
(* written here as the integer k that stands for the float k / 32768.      *)
Bytes == 0..255
Int16 == -32768..32767
wrap16(x) == ((x + 32768) % 65536) - 32768
RECURSIVE floor_log2(_)
floor_log2(v) == IF v < 2 THEN 0 ELSE 1 + floor_log2(v \div 2)

\* the exponent field of a byte, lines 243 and 248
ulaw_exponent(b) == ((255 - b) \div 16) % 8

\* _ulaw_to_pcm, lines 243-253, before the division by 32768.0
ulaw_to_pcm(b) ==
    LET encoded == 255 - b
        sign == (257 - 2 * (encoded \div 128)) % 256
        mantissa == encoded % 16
        exponent == (encoded \div 16) % 8
        pow == (2 ^ (exponent + 3)) % 256
        magnitude == (((mantissa * pow) % 256) + pow + 256 - 33) % 256
    IN (sign * magnitude) % 256

\* (samples * 32768).astype(np.int16), line 225: the conversion of a value
\* outside int16 is undefined, the build decides what it yields
scale_to_int16(k) == IF k \in Int16 THEN {k} ELSE Int16

\* (np.log2(samples) - 6).astype(np.uint8), line 273: log2(0) is -inf, whose
\* conversion to uint8 is undefined
exponent_cast(v) == IF v = 0 THEN Bytes ELSE {floor_log2(v) - 6}

\* np.abs(samples), line 267, of one int16 sample: the absolute value of
\* -32768 does not fit and comes back as -32768
pcm_magnitude(sample) ==
    IF sample = -32768 THEN -32768 ELSE IF sample < 0 THEN -sample ELSE sample

\* samples + 132, line 270, before the clip: an int16 sum, taken modulo 2^16
pcm_biased(sample) == wrap16(pcm_magnitude(sample) + 132)

\* _pcm_to_ulaw, lines 266-278, of one int16 sample: the bytes it can yield
pcm_to_ulaw(sample) ==
    LET sign == IF sample < 0 THEN 1 ELSE 0
        biased == pcm_biased(sample)
        clipped == IF biased < 0 THEN 0 ELSE biased
    IN { LET exponent == IF cast > 7 THEN 7 ELSE cast
             mantissa == (clipped \div (2 ^ (exponent + 3))) % 16
         IN 255 - (128 * sign + 16 * exponent + mantissa) :
         cast \in exponent_cast(clipped) }

\* _decode_g711, lines 207-212
decode_g711(b) == ulaw_to_pcm(b)
\* _encode_g711, lines 225-230
encode_g711(k) == UNION {pcm_to_ulaw(s) : s \in scale_to_int16(k)}

codecOthers == <<bufVars, reader, procVars, dtmfVars, now, next_id, histVars, hwVars,
                 detectorVars, hw_max_size, svcVars, wsVars, classifier, transform, stateVars>>

\* a caller decodes a byte
Decode(b) ==
    /\ codec.pc = "idle"
    /\ codec' = [codec EXCEPT !.pc = "decoded", !.byte = b, !.first = decode_g711(b)]
    /\ UNCHANGED codecOthers

\* encodes what it got
Encode ==
    /\ codec.pc = "decoded"
    /\ \E e \in encode_g711(codec.first) :
          codec' = [codec EXCEPT !.pc = "encoded", !.encoded = e]
    /\ UNCHANGED codecOthers

\* the samples _encode_g711 is given here, as k for the float k / 32768:
\* full scale both ways, the values around the largest magnitude the bias
\* leaves inside int16, and small ones
EncodeSamples == {-32768, -32700, -1, 0, 1, 32635, 32636, 32767, 32768}

\* _encode_g711 (lines 225-230) of one sample of [-1, 1]
EncodeSample(k) ==
    /\ codec.pc = "idle"
    /\ \E s \in scale_to_int16(k) : \E e \in pcm_to_ulaw(s) :
          codec' = [codec EXCEPT !.pc = "sample", !.first = k, !.scaled = s,
                                 !.encoded = e]
    /\ UNCHANGED codecOthers

\* and decodes the result
DecodeAgain ==
    /\ codec.pc = "encoded"
    /\ codec' = [codec EXCEPT !.pc = "done", !.second = decode_g711(codec.encoded)]
    /\ UNCHANGED codecOthers

NextCodec ==
    \/ \E b \in Bytes : Decode(b)
    \/ Encode
    \/ DecodeAgain
    \/ \E k \in EncodeSamples : EncodeSample(k)

SpecCodec == Init /\ [][NextCodec]_vars

(* ================ core/dtmf.py: the decision of _detect_dtmf =========== *)
(* The Goertzel energies are the inputs here: a frame is given by its      *)
(* length and by the energy, in tenths, at each row and column frequency.  *)
DTMF_FREQS == [row |-> <<697, 770, 852, 941>>, col |-> <<1209, 1336, 1477, 1633>>]
DTMF_DIGITS == << <<"1", "2", "3", "A">>,
                  <<"4", "5", "6", "B">>,
                  <<"7", "8", "9", "C">>,
                  <<"*", "0", "#", "D">> >>
\* energies below, at and above the threshold
Energies == {detection_threshold - 1, detection_threshold, detection_threshold + 1}
FrameLengths == {frame_size - 1, frame_size}

\* np.argmax, lines 149-150: the first index that holds the maximum
argmax(s) ==
    CHOOSE i \in DOMAIN s :
        /\ \A j \in DOMAIN s : s[j] <= s[i]
        /\ \A j \in DOMAIN s : j < i => s[j] < s[i]

\* the decision with "or" where line 153 has "and"
detect_dtmf_either(len, row_energies, col_energies) ==
    IF len < frame_size THEN None
    ELSE LET row_idx == argmax(row_energies)
             col_idx == argmax(col_energies)
         IN IF \/ row_energies[row_idx] > detection_threshold
               \/ col_energies[col_idx] > detection_threshold
            THEN DTMF_DIGITS[row_idx][col_idx]
            ELSE None

\* _detect_dtmf, lines 135-157, given the energies of lines 139-146
detect_dtmf_energies(len, row_energies, col_energies) ==
    IF len < frame_size THEN None
    ELSE LET row_idx == argmax(row_energies)
             col_idx == argmax(col_energies)
         IN IF /\ row_energies[row_idx] > detection_threshold
               /\ col_energies[col_idx] > detection_threshold
            THEN DTMF_DIGITS[row_idx][col_idx]
            ELSE None

classifierOthers == <<bufVars, reader, procVars, dtmfVars, now, next_id, histVars, hwVars,
                      detectorVars, hw_max_size, svcVars, wsVars, codec, transform, stateVars>>

\* a caller classifies a frame
DetectDtmf(len, row_energies, col_energies) ==
    /\ classifier.pc = "idle"
    /\ classifier' = [pc |-> "done", len |-> len, row_energies |-> row_energies,
                      col_energies |-> col_energies,
                      result |-> detect_dtmf_energies(len, row_energies, col_energies)]
    /\ UNCHANGED classifierOthers

NextClassifier ==
    \E len \in FrameLengths, row_energies \in [1..4 -> Energies],
       col_energies \in [1..4 -> Energies] :
          DetectDtmf(len, row_energies, col_energies)

SpecClassifier == Init /\ [][NextClassifier]_vars

(* ========== core/audio_processor.py: _apply_processing ================ *)
(* Samples are integers in units of 1 / 32768; a product or quotient that  *)
(* falls between two units is cut towards zero, and the 1e-10 that line    *)
(* 181 adds to the mean (1/300000 of a unit) is left out.                  *)
RECURSIVE sum_abs(_)
sum_abs(s) ==
    IF s = <<>> THEN 0
    ELSE (IF Head(s) < 0 THEN -Head(s) ELSE Head(s)) + sum_abs(Tail(s))
\* x * num / den, cut towards zero
scaled(x, num, den) == IF x < 0 THEN -((-x * num) \div den) ELSE (x * num) \div den

\* line 177
apply_gain(samples, gain) == [i \in DOMAIN samples |-> samples[i] * gain]
\* no gain control: the samples pass unchanged
agc_unity(samples) == samples
\* lines 181-183: the factor 10 ** ((agc_target - level) / 20) is the target
\* amplitude over the mean amplitude; on silence the samples stay zero
agc(samples) ==
    IF sum_abs(samples) = 0 THEN samples
    ELSE [i \in DOMAIN samples |->
             scaled(samples[i], agc_target * Len(samples), sum_abs(samples))]
\* lines 188-189: the floor is a tenth of the mean amplitude
noise_gate(samples) ==
    [i \in DOMAIN samples |->
        IF 10 * Len(samples) * sum_abs(<<samples[i]>>) < sum_abs(samples)
        THEN 0 ELSE samples[i]]
\* line 192
clip(samples) ==
    [i \in DOMAIN samples |->
        IF samples[i] < -FullScale THEN -FullScale
        ELSE IF samples[i] > FullScale THEN FullScale ELSE samples[i]]

\* the steps without the clipping of line 192
apply_processing_unclipped(t, samples) ==
    LET gained == apply_gain(samples, t.gain)
        levelled == IF t.enable_agc THEN agc(gained) ELSE gained
        gated == IF t.enable_noise_reduction THEN noise_gate(levelled) ELSE levelled
    IN [t EXCEPT !.pc = "applied", !.gained = gained, !.levelled = levelled,
                 !.gated = gated, !.processed = gated]

\* _apply_processing, lines 176-194
apply_processing(t, samples) ==
    LET gained == apply_gain(samples, t.gain)
        levelled == IF t.enable_agc THEN agc(gained) ELSE gained
        gated == IF t.enable_noise_reduction THEN noise_gate(levelled) ELSE levelled
    IN [t EXCEPT !.pc = "applied", !.gained = gained, !.levelled = levelled,
                 !.gated = gated, !.processed = clip(gated)]

\* length, in samples, of the frames passed, the bytes they are made of, the
\* samples passed without a decoder, and the configured gains
TransformLen == 1..2
TransformBytes == {255, 127, 125}
TransformSamples == {-25, 0, 9}
Gains == {1, 200}

transformOthers == <<bufVars, reader, procVars, dtmfVars, now, next_id, histVars, hwVars,
                     detectorVars, hw_max_size, svcVars, wsVars, codec, classifier, stateVars>>

\* process_frame, line 108: the frame is decoded
DecodeFrame(audio_data) ==
    /\ transform.pc = "idle"
    /\ transform' = [transform EXCEPT !.pc = "decoded", !.audio_data = audio_data,
                        !.samples = [i \in DOMAIN audio_data |-> decode_g711(audio_data[i])]]
    /\ UNCHANGED transformOthers

\* a caller that has samples of its own
TakeSamples(samples) ==
    /\ transform.pc = "idle"
    /\ transform' = [transform EXCEPT !.pc = "decoded", !.samples = samples]
    /\ UNCHANGED transformOthers

\* process_frame, line 111: the samples go through _apply_processing, and
\* what it returns is what line 120 hands to _encode_g711
ApplyProcessing ==
    /\ transform.pc = "decoded"
    /\ transform' = apply_processing(transform, transform.samples)
    /\ UNCHANGED transformOthers

InitTransform ==
    /\ InitBuffer /\ InitProcessor /\ InitHw /\ InitDetector /\ InitState
    /\ hw_max_size = MaxBytes /\ InitSvc /\ active_connections = {} /\ stream_task = None
    /\ codec = NoCodec /\ classifier = NoClassifier
    /\ \E gain \in Gains, enable_agc \in BOOLEAN, enable_noise_reduction \in BOOLEAN :
          transform = [NoTransform EXCEPT !.gain = gain, !.enable_agc = enable_agc,
                          !.enable_noise_reduction = enable_noise_reduction]

NextTransform ==
    \/ \E n \in TransformLen : \E audio_data \in [1..n -> TransformBytes] :
          DecodeFrame(audio_data)
    \/ \E n \in TransformLen : \E samples \in [1..n -> TransformSamples] :
          TakeSamples(samples)
    \/ ApplyProcessing

SpecTransform == InitTransform /\ [][NextTransform]_vars

(* ================= core/state.py StateManager (the phone) ============== *)
(* The lock is a threading.Lock of the class.  transition_to holds it from *)
(* line 98 until _notify_subscribers has returned; a subscriber that       *)
(* suspends leaves it held while other coroutines run, and a coroutine     *)
(* that then asks for the lock stops the thread of the event loop.         *)
PhoneState == {"on_hook", "off_hook", "ringing", "in_call", "error"}
\* _is_valid_transition, lines 161-169
valid_transitions ==
    [on_hook  |-> {"ringing", "off_hook", "error"},
     off_hook |-> {"on_hook", "in_call", "error"},
     ringing  |-> {"on_hook", "off_hook", "error"},
     in_call  |-> {"on_hook", "error"},
     error    |-> {"on_hook"}]
is_valid_transition(from_state, to_state) == to_state \in valid_transitions[from_state]

\* _add_to_history, lines 171-182
add_to_history(history, old_state, new_state) ==
    LET h == Append(history, <<old_state, new_state>>)
    IN IF Len(h) > max_history THEN Tail(h) ELSE h

\* transition_to, lines 97-147, up to the first suspension of a subscriber or,
\* if none suspends, to its end
transition_to(p, new_state, suspends) ==
    IF ~is_valid_transition(p.state, new_state)
    THEN [p EXCEPT !.result = "StateTransitionError"]
    ELSE [p EXCEPT !.state = new_state,
                   !.history = add_to_history(p.history, p.state, new_state),
                   !.lock = IF suspends THEN "held" ELSE "free",
                   !.pc = IF suspends THEN "notifying" ELSE "idle",
                   !.result = IF suspends THEN "pending" ELSE "returned"]

stateOthers == <<bufVars, reader, procVars, dtmfVars, now, next_id, histVars, hwVars,
                 detectorVars, hw_max_size, svcVars, wsVars, pureVars>>

\* a coroutine calls transition_to while the lock is free
PhoneTransitionTo(new_state, suspends) ==
    /\ phone.pc = "idle" /\ phone.lock = "free"
    /\ phone' = transition_to(phone, new_state, suspends)
    /\ UNCHANGED <<callmgr, stateOthers>>

\* the suspended subscribers return: the await of line 133 ends and the lock
\* is released
PhoneNotified ==
    /\ phone.pc = "notifying"
    /\ phone' = [phone EXCEPT !.lock = "free", !.pc = "idle", !.result = "returned"]
    /\ UNCHANGED <<callmgr, stateOthers>>

\* another coroutine calls transition_to while the lock is held: line 98 waits
\* in the only thread there is, and nothing of the program runs any more
PhoneBlocked ==
    /\ phone.pc = "notifying"
    /\ phone' = [phone EXCEPT !.pc = "blocked"]
    /\ UNCHANGED <<callmgr, stateOthers>>

\* the descriptions set_error is called with
ErrorConditions == {"line fault"}

\* set_error, lines 205-221: records the condition under the lock (line 213)
\* and, still inside it, awaits transition_to, whose line 98 asks for the same
\* threading.Lock: the only thread waits for itself before any state change
set_error(p, error_condition) ==
    [p EXCEPT !.error_condition = error_condition, !.errors = @ + 1,
              !.lock = "held", !.pc = "blocked", !.result = "pending"]

\* clear_error, lines 286-292: outside ERROR it takes the lock and returns;
\* in ERROR it forgets the condition and awaits transition_to inside the lock
clear_error(p) ==
    IF p.state = "error"
    THEN [p EXCEPT !.error_condition = None,
                   !.lock = "held", !.pc = "blocked", !.result = "pending"]
    ELSE [p EXCEPT !.result = "returned"]

\* a coroutine calls set_error while the lock is free
SetError(error_condition) ==
    /\ phone.pc = "idle" /\ phone.lock = "free"
    /\ phone' = set_error(phone, error_condition)
    /\ UNCHANGED <<callmgr, stateOthers>>

\* a coroutine calls clear_error while the lock is free
ClearError ==
    /\ phone.pc = "idle" /\ phone.lock = "free"
    /\ phone' = clear_error(phone)
    /\ UNCHANGED <<callmgr, stateOthers>>

(* ============== core/state_manager.py StateManager (calls) ============= *)
CallState == {"on_hook", "off_hook", "ringing", "connecting", "active", "ended", "error"}
\* lines 59-67
VALID_TRANSITIONS ==
    [on_hook    |-> {"ringing", "off_hook"},
     off_hook   |-> {"on_hook", "connecting"},
     ringing    |-> {"on_hook", "active"},
     connecting |-> {"active", "error", "on_hook"},
     active     |-> {"on_hook", "error"},
     error      |-> {"on_hook"},
     ended      |-> {"on_hook"}]

\* transition_to, lines 116-167.  The handler of lines 153-167 builds a
\* SystemEvent without the event_id that BaseEvent requires (events/types.py
\* line 55): pydantic's ValidationError leaves the function in place of the
\* exception being handled.  A valid request gets there too, after the state
\* change, through StateEvent, a name the module does not import (line 138).
call_transition_to(m, new_state) ==
    IF new_state \notin VALID_TRANSITIONS[m.state]
    THEN [m EXCEPT !.error_count = @ + 1, !.result = "ValidationError"]
    ELSE [m EXCEPT !.state = new_state,
                   !.history = Append(m.history, <<m.state, new_state>>),
                   !.error_count = @ + 1, !.result = "ValidationError"]

\* a coroutine calls transition_to of the call state manager
CallTransitionTo(new_state) ==
    /\ callmgr.error_count < MaxTransitions
    /\ callmgr' = call_transition_to(callmgr, new_state)
    /\ UNCHANGED <<phone, stateOthers>>

\* start_call, lines 170-207: the call is tracked (line 188) before the
\* transition is tried, and the handler of lines 202-207 only logs and raises
start_call(m, call_id) ==
    call_transition_to([m EXCEPT !.active_calls = @ \cup {call_id}], "active")

\* end_call, lines 210-254
end_call(m, call_id) ==
    IF call_id \notin m.active_calls
    THEN [m EXCEPT !.result = "returned"]
    ELSE LET d == [m EXCEPT !.active_calls = @ \ {call_id}]
         IN IF d.active_calls = {}
            THEN call_transition_to(d, "on_hook")
            ELSE [d EXCEPT !.result = "returned"]

\* a coroutine calls start_call
StartCall(call_id) ==
    /\ callmgr.error_count < MaxTransitions
    /\ callmgr' = start_call(callmgr, call_id)
    /\ UNCHANGED <<phone, stateOthers>>

\* a coroutine calls end_call
EndCall(call_id) ==
    /\ callmgr.error_count < MaxTransitions
    /\ callmgr' = end_call(callmgr, call_id)
    /\ UNCHANGED <<phone, stateOthers>>

(* ===================== core/pjsip_server.py SIPServer ================== *)
(* active_sessions maps the session ids to the state of their CallSession. *)
(* The handlers catch every exception and keep its text in last_error.     *)
callOthers == <<bufVars, reader, procVars, dtmfVars, now, next_id, histVars, hwVars,
                detectorVars, hw_max_size, sipOthers, wsVars, pureVars, phone>>

\* dict item assignment and del
put(d, k, v) == [x \in DOMAIN d \cup {k} |-> IF x = k THEN v ELSE d[x]]
del(d, k) == [x \in DOMAIN d \ {k} |-> d[x]]

\* _handle_incoming_call, lines 344-391, when PJSIP answers: the session is
\* stored in state CONNECTING under a fresh uuid
handle_incoming_call(w, session_id) ==
    [w EXCEPT !.active_sessions = put(@, session_id, "connecting")]

\* _call_connected, lines 395-435, on the server w and the state manager m
call_connected(w, m, session_id) ==
    IF session_id \notin DOMAIN w.active_sessions
    THEN [sip |-> w, mgr |-> m]
    ELSE LET w1 == [w EXCEPT !.active_sessions[session_id] = "active"]
             m1 == call_transition_to(m, "off_hook")
             m2 == start_call(m1, session_id)
         IN IF m1.result # "returned"
            THEN [sip |-> [w1 EXCEPT !.last_error = m1.result], mgr |-> m1]
            ELSE IF m2.result # "returned"
            THEN [sip |-> [w1 EXCEPT !.last_error = m2.result], mgr |-> m2]
            ELSE [sip |-> w1, mgr |-> m2]

\* _end_call, lines 580-647, as _call_disconnected (lines 437-444) calls it
sip_end_call(w, m, session_id) ==
    IF session_id \notin DOMAIN w.active_sessions
    THEN [sip |-> w, mgr |-> m]
    ELSE LET w1 == [w EXCEPT !.active_sessions = del(@, session_id)]
             m1 == end_call(m, session_id)
             m2 == call_transition_to(m1, "on_hook")
         IN IF m1.result # "returned"
            THEN [sip |-> [w1 EXCEPT !.last_error = m1.result], mgr |-> m1]
            ELSE IF DOMAIN w1.active_sessions # {}
            THEN [sip |-> w1, mgr |-> m1]
            ELSE IF m2.result # "returned"
            THEN [sip |-> [w1 EXCEPT !.last_error = m2.result], mgr |-> m2]
            ELSE [sip |-> w1, mgr |-> m2]

\* PJSIP reports an incoming call
HandleIncomingCall(session_id) ==
    /\ session_id \notin DOMAIN sip.active_sessions
    /\ callmgr.error_count < MaxTransitions
    /\ sip' = handle_incoming_call(sip, session_id)
    /\ UNCHANGED <<callmgr, callOthers>>

\* PJSIP reports the call confirmed
CallConnected(session_id) ==
    /\ session_id \in DOMAIN sip.active_sessions
    /\ sip.active_sessions[session_id] = "connecting"
    /\ callmgr.error_count < MaxTransitions
    /\ LET r == call_connected(sip, callmgr, session_id)
       IN sip' = r.sip /\ callmgr' = r.mgr
    /\ UNCHANGED callOthers

\* PJSIP reports the call disconnected
CallDisconnected(session_id) ==
    /\ session_id \in DOMAIN sip.active_sessions
    /\ callmgr.error_count < MaxTransitions
    /\ LET r == sip_end_call(sip, callmgr, session_id)
       IN sip' = r.sip /\ callmgr' = r.mgr
    /\ UNCHANGED callOthers

NextState ==
    \/ \E s \in PhoneState, suspends \in BOOLEAN : PhoneTransitionTo(s, suspends)
    \/ PhoneNotified
    \/ PhoneBlocked
    \/ \E c \in ErrorConditions : SetError(c)
    \/ ClearError
    \/ \E s \in CallState : CallTransitionTo(s)
    \/ \E c \in SessionIds : StartCall(c)
    \/ \E c \in SessionIds : EndCall(c)

(* The SIP server drives the call state manager: calls come in, are        *)
(* confirmed and are disconnected, while the other users of the state      *)
(* manager call it directly.                                               *)
NextSip ==
    \/ \E c \in SessionIds : HandleIncomingCall(c)
    \/ \E c \in SessionIds : CallConnected(c)
    \/ \E c \in SessionIds : CallDisconnected(c)
    \/ \E s \in CallState : CallTransitionTo(s)
    \/ \E c \in SessionIds : StartCall(c)
    \/ \E c \in SessionIds : EndCall(c)

SpecSip == Init /\ [][NextSip]_vars

SpecState == Init /\ [][NextState]_vars

(* ================= events/dispatcher.py EventDispatcher ================ *)
(* The processing task is suspended either in queue.get() ("waiting") or   *)
(* inside a handler it awaits ("in_handler"); between two suspensions it   *)
(* runs alone.  delivered[h] lists the event ids handler h was called with.*)
dispatcherRest == <<bufVars, reader, procVars, dtmfVars, now, next_id, histVars, hwVars,
                    detectorVars, hw_max_size, dispatcherOthers, wsVars, pureVars,
                    stateVars>>

\* register_handler, lines 37-61; event_types is a set of types, or
\* AllEvents for the default None
register_handler(d, handler, event_types) ==
    IF event_types = AllEvents
    THEN [d EXCEPT !.global_handlers = @ \cup {handler}]
    ELSE [d EXCEPT !.handlers =
             [t \in DOMAIN @ \cup event_types |->
                 (IF t \in DOMAIN @ THEN @[t] ELSE {}) \cup
                 (IF t \in event_types THEN {handler} ELSE {})]]

\* lines 137-140: the handlers an event of this type is given to
collect_handlers(d, type) ==
    d.global_handlers \cup (IF type \in DOMAIN d.handlers THEN d.handlers[type] ELSE {})

\* dispatch, lines 92-100: the event is queued; the log line then reads
\* event.type, which raises AttributeError for an event without that field
dispatch(d, event) ==
    [d EXCEPT !.queue = Append(@, event), !.sent = Append(@, event)]

\* the loop calls handler h with the event it holds and is suspended in it
call_handler(d, h) ==
    [d EXCEPT !.delivered[h] = Append(@, d.event.event_id),
              !.pending = @ \ {h}, !.process_task = "in_handler"]

\* line 152 and back to line 135: the event is done, the loop waits again
task_done(d) == [d EXCEPT !.event = None, !.pending = {}, !.process_task = "waiting"]

\* the application registers a handler before it dispatches anything
RegisterHandler(h, event_types) ==
    /\ dispatcher.sent = <<>>
    /\ h \notin collect_handlers(dispatcher, "dtmf")
    /\ dispatcher' = register_handler(dispatcher, h, event_types)
    /\ UNCHANGED dispatcherRest

\* a coroutine dispatches the next event
Dispatch(type) ==
    /\ Len(dispatcher.sent) < MaxEvents
    /\ dispatcher' = dispatch(dispatcher,
                              [event_id |-> Len(dispatcher.sent) + 1, type |-> type])
    /\ UNCHANGED dispatcherRest

\* start, lines 102-111
DispatcherStart ==
    /\ ~dispatcher.running
    /\ dispatcher' = [dispatcher EXCEPT !.running = TRUE, !.process_task = "waiting"]
    /\ UNCHANGED dispatcherRest

\* stop, lines 113-127: the task is cancelled where it is suspended; inside a
\* handler the CancelledError passes the handler of line 149 (it is not an
\* Exception) and ends the loop at line 154, and the event it held is gone
DispatcherStop ==
    /\ dispatcher.running /\ dispatcher.stops < MaxStops
    /\ dispatcher' = [dispatcher EXCEPT !.running = FALSE, !.process_task = None,
                                        !.event = None, !.pending = {},
                                        !.stops = @ + 1]
    /\ UNCHANGED dispatcherRest

\* _process_events, lines 135-147: queue.get() returns; an event without the
\* field `type` raises at line 136 and the handler of line 156 logs it; the
\* others go to their handlers, the first of which is called
ProcessEvent ==
    /\ dispatcher.process_task = "waiting" /\ dispatcher.queue # <<>>
    /\ LET event == Head(dispatcher.queue)
           d == [dispatcher EXCEPT !.queue = Tail(@)]
           handlers == collect_handlers(d, event.type)
       IN IF event.type = NoType
          THEN dispatcher' = [d EXCEPT !.errors = @ + 1]
          ELSE IF handlers = {}
          THEN dispatcher' = task_done(d)
          ELSE \E h \in handlers :
                  dispatcher' = call_handler([d EXCEPT !.event = event,
                                                      !.pending = handlers], h)
    /\ UNCHANGED dispatcherRest

\* lines 143-152: the awaited handler returns or raises (line 149 logs it),
\* and the loop calls the next handler or finishes the event
HandlerDone(raised) ==
    /\ dispatcher.process_task = "in_handler"
    /\ LET d == [dispatcher EXCEPT !.errors = IF raised THEN @ + 1 ELSE @]
       IN IF d.pending = {}
          THEN dispatcher' = task_done(d)
          ELSE \E h \in d.pending : dispatcher' = call_handler(d, h)
    /\ UNCHANGED dispatcherRest

NextEvents ==
    \/ \E h \in EventHandlers, types \in {AllEvents, {"dtmf"}} : RegisterHandler(h, types)
    \/ \E type \in EventKinds : Dispatch(type)
    \/ DispatcherStart
    \/ DispatcherStop
    \/ ProcessEvent
    \/ \E raised \in BOOLEAN : HandlerDone(raised)

SpecEvents == Init /\ [][NextEvents]_vars

(* The event loop runs every task that is ready, and the application       *)
(* starts a stopped dispatcher again: the dispatcher is eventually         *)
(* running, and stops at most MaxStops times.                              *)
SpecEventsFair ==
    /\ SpecEvents
    /\ WF_vars(DispatcherStart)
    /\ WF_vars(ProcessEvent)
    /\ WF_vars(\E raised \in BOOLEAN : HandlerDone(raised))

(* ======= integrations/webhooks/delivery.py WebhookDeliveryManager ====== *)
(* A delivery is the WebhookDeliveryStatus kept under its webhook_id, with *)
(* the fields the retry logic reads.  An HTTP exchange is taken as one     *)
(* step with one of three outcomes.  The Optional fields the constructors  *)
(* leave out default to None, as in the pydantic the code is written for.  *)
deliveryRest == <<bufVars, reader, procVars, dtmfVars, now, next_id, histVars, hwVars,
                  detectorVars, hw_max_size, deliveryOthers, wsVars, pureVars,
                  stateVars>>

\* lines 200 and 215
failed_or_retrying(y) ==
    IF y.current_attempt >= y.max_attempts THEN "failed" ELSE "retrying"

\* _attempt_delivery, lines 170-218, with a session: the delivery after the
\* attempt; it returns TRUE exactly when the status becomes "success"
attempt_delivery(y, outcome) ==
    LET a == [y EXCEPT !.current_attempt = @ + 1]
    IN IF outcome = "ok"
       THEN [a EXCEPT !.status = "success"]
       ELSE [a EXCEPT !.status = failed_or_retrying(a)]

\* _schedule_retry, lines 220-241, of the delivery y kept under webhook_id
schedule_retry(m, webhook_id, y) ==
    IF y.current_attempt >= y.max_attempts
    THEN [m EXCEPT !.deliveries = put(@, webhook_id, [y EXCEPT !.status = "failed"])]
    ELSE [m EXCEPT !.deliveries = put(@, webhook_id, y),
                   !.retry_queue[webhook_id] = @ + 1]

\* deliver, lines 125-156: the new delivery replaces the one kept under the
\* id; without a session the attempt raises RuntimeError (line 168) and the
\* handler of line 152 schedules a retry; with one, the attempt's result is
\* not looked at
deliver(m, webhook_id, outcome) ==
    LET y == [status |-> "pending", max_attempts |-> max_attempts, current_attempt |-> 0]
        k == [m EXCEPT !.deliveries = put(@, webhook_id, y), !.calls = @ + 1]
    IN IF ~m.session
       THEN schedule_retry(k, webhook_id, y)
       ELSE [k EXCEPT !.deliveries[webhook_id] = attempt_delivery(y, outcome)]

\* one round of _process_retries, lines 247-280, with a due entry for
\* webhook_id
process_retry(m, webhook_id, outcome) ==
    LET k == [m EXCEPT !.retry_queue[webhook_id] = @ - 1]
    IN IF webhook_id \notin DOMAIN k.deliveries
       THEN k
       ELSE IF k.deliveries[webhook_id].status = "success"
       THEN k
       ELSE LET y == attempt_delivery(k.deliveries[webhook_id], outcome)
            IN IF y.status = "success"
               THEN [k EXCEPT !.deliveries[webhook_id] = y]
               ELSE schedule_retry(k, webhook_id, y)

\* start, lines 93-105
DeliveryStart ==
    /\ ~delivery_manager.running
    /\ delivery_manager' = [delivery_manager EXCEPT !.session = TRUE, !.running = TRUE]
    /\ UNCHANGED deliveryRest

\* stop, lines 107-123
DeliveryStop ==
    /\ delivery_manager.stops < MaxStops
    /\ delivery_manager' = [delivery_manager EXCEPT !.session = FALSE, !.running = FALSE,
                                                    !.stops = @ + 1]
    /\ UNCHANGED deliveryRest

\* a coroutine calls deliver
Deliver(webhook_id, outcome) ==
    /\ delivery_manager.calls < MaxDeliveries
    /\ delivery_manager' = deliver(delivery_manager, webhook_id, outcome)
    /\ UNCHANGED deliveryRest

\* the retry task takes a due entry
ProcessRetry(webhook_id, outcome) ==
    /\ delivery_manager.running
    /\ delivery_manager.retry_queue[webhook_id] > 0
    /\ delivery_manager' = process_retry(delivery_manager, webhook_id, outcome)
    /\ UNCHANGED deliveryRest

NextDelivery ==
    \/ DeliveryStart
    \/ DeliveryStop
    \/ \E w \in WebhookIds, o \in PostOutcomes : Deliver(w, o)
    \/ \E w \in WebhookIds, o \in PostOutcomes : ProcessRetry(w, o)

SpecDelivery == Init /\ [][NextDelivery]_vars

(* The event loop runs the retry task whenever an entry is due, and the    *)
(* application starts a stopped manager again.                             *)
SpecDeliveryFair ==
    /\ SpecDelivery
    /\ WF_vars(DeliveryStart)
    /\ WF_vars(\E w \in WebhookIds, o \in PostOutcomes : ProcessRetry(w, o))

(* ================================ claims ============================== *)

(* C1: in every reachable state of a buffer each queue holds between 0 and *)
(* its capacity entries, and a write to a full queue is one step that      *)
(* leaves the queue as it was (for the sample buffer: under the drop       *)
(* strategy) and that the producer can always take.                        *)
C1_Lengths ==
    /\ Len(raw_buffer) <= max_size
    /\ Len(processed_buffer) <= max_size
    /\ Len(hw_buffer) <= samples_per_frame
    /\ (instance = "core" /\ next_id <= MaxFrames) =>
           ENABLED WriteRaw("silence") /\ ENABLED WriteProcessed
C1_FullWrite ==
    /\ (WriteRaw("silence") /\ Len(raw_buffer) >= max_size) => raw_buffer' = raw_buffer
    /\ (WriteProcessed /\ Len(processed_buffer) >= max_size) =>
           processed_buffer' = processed_buffer
    /\ \A n \in 1..MaxWrite :
           (HwWrite(n) /\ overflow_strategy = "drop"
              /\ Len(hw_buffer) + n > samples_per_frame) => hw_buffer' = hw_buffer
Attempts == next_id - 1
C2_DropKeepsFirst ==
    /\ (instance = "core" /\ ~touched /\ Attempts > max_size) =>
          /\ Len(raw_buffer) = max_size
          /\ \A i \in 1..max_size : raw_buffer[i].id = i
          /\ written = [i \in 1..max_size |-> i]
          /\ overflow_count = Attempts - max_size
    /\ (instance = "hw" /\ overflow_strategy = "drop" /\ ~touched
        /\ Len(hw_buffer) = hw_stats.total_writes
        /\ hw_stats.dropped_samples = hw_stats.overflows
        /\ Attempts > samples_per_frame) =>
          /\ hw_buffer = [i \in 1..samples_per_frame |-> i]
          /\ hw_stats.overflows = Attempts - samples_per_frame
          /\ hw_result = [HwNoResult EXCEPT !.kind = "written", !.dropped = 1]
C2_Witness ==
    instance = "core" /\ ~touched /\ Attempts > max_size /\ overflow_count > 0

(* C3: a read with timeout None never returns empty.                       *)
C3_ReadNoneNeverEmpty ==
    \A r \in Readers :
        (reader[r].pc = "idle" /\ reader[r].timeout = None) => reader[r].result # NoFrame

(* C4: a read with a timeout on an empty buffer into which no frame        *)
(* arrives returns empty and raises underflow_count by exactly one.        *)
C4_TimeoutCountsUnderflow ==
    [][\A r \in Readers :
          ReadTimeout(r) => /\ reader'[r].result = NoFrame
                            /\ underflow_count' = underflow_count + 1]_vars

(* C5: the frames handed to each stream handler are an order-preserving,   *)
(* duplicate-free subsequence of the frames accepted by write_raw.         *)
StrictlyIncreasing(q) == \A i, j \in DOMAIN q : i < j => q[i] < q[j]
C5_DeliveredInOrder ==
    \A h \in HandlerIds :
        /\ StrictlyIncreasing(delivered[h])
        /\ Range(delivered[h]) \subseteq Range(written)

(* C6: every frame the loop takes from the raw buffer is either written to *)
(* the processed buffer (and handed to the handlers) or counted as         *)
(* dropped.  In one run of the loop only the loop takes frames from the    *)
(* raw queue and appends to the processed queue, so the frames taken are   *)
(* at most the frames appended plus the frames counted as dropped.         *)
LoopStep ==
    \E t \in TaskIds : LoopStart(t) \/ LoopWake(t) \/ LoopTimeout(t) \/ HandlerReturn(t)
NoEmptyFrame == \A i \in DOMAIN raw_buffer : raw_buffer[i].kind # "empty"
C6_TakenFramesAccounted ==
    [][(LoopStep /\ NoEmptyFrame) =>
          Len(raw_buffer) - Len(raw_buffer')
            <= (Len(processed_buffer') - Len(processed_buffer))
               + (dropped_frames' - dropped_frames)]_vars

(* C7: when stop() returns on a running pipeline the loop has ended and    *)
(* both queues are empty; from then until the next start() no frame is     *)
(* taken from the raw queue and no stream handler is invoked.              *)
StopReturns == (Stop /\ running /\ stop_pc' = "idle") \/ StopResume
Stopped == ~running /\ stop_pc = "idle"
C7_StopEndsLoop ==
    /\ [][StopReturns => /\ LiveTasks' = {}
                         /\ raw_buffer' = <<>> /\ processed_buffer' = <<>>
                         /\ ~running']_vars
    /\ [][(Stopped /\ ~running') => /\ LiveTasks' = {}
                                    /\ delivered' = delivered
                                    /\ Len(raw_buffer') >= Len(raw_buffer)]_vars
C7_Witness ==
    Stopped /\ processed_frames > 0 /\ raw_buffer # <<>> /\ dict_keys(stream_handlers) # {}

(* C8 as stated: stop() followed by start() leaves processed_frames,       *)
(* dropped_frames, overflow_count and underflow_count at their values      *)
(* before the stop.                                                        *)
C8_StopKeepsAllCounters ==
    [][(StopReturns \/ Start) =>
          /\ processed_frames' = processed_frames
          /\ dropped_frames' = dropped_frames
          /\ overflow_count' = overflow_count
          /\ underflow_count' = underflow_count]_vars

(* C8 amended: stop() and start() leave processed_frames and               *)
(* dropped_frames as they were; stop() returns with overflow_count and     *)
(* underflow_count at zero, because it calls the buffer's clear(), and     *)
(* start() leaves them as they are.                                        *)
C8_StopKeepsFrameCounters ==
    /\ [][(Stop \/ StopResume \/ Start) =>
             /\ processed_frames' = processed_frames
             /\ dropped_frames' = dropped_frames]_vars
    /\ [][StopReturns => (overflow_count' = 0 /\ underflow_count' = 0)]_vars
    /\ [][Start => (overflow_count' = overflow_count
                    /\ underflow_count' = underflow_count)]_vars
C8_Witness ==
    Stopped /\ processed_frames > 0 /\ dropped_frames > 0 /\ overflow_count = 0

(* C9: the lifecycle is stopped -> running -> stopped; start() on a        *)
(* running pipeline and stop() on a stopped one change nothing; with       *)
(* start and stop called one at a time at most one loop task exists, it is *)
(* the one _processing_task names, and the pipeline holds one exactly when *)
(* it is running.                                                          *)
ExistingTasks == {t \in TaskIds : tasks[t].pc # "absent"}
C9_OneTask ==
    /\ Cardinality(ExistingTasks) <= 1
    /\ \A t \in ExistingTasks : processing_task = t
    /\ stop_pc = "idle" => (running <=> processing_task # NoTask)
    /\ Stopped => ExistingTasks = {}
Fails(kind, call_id) ==
    process_audio(Cur, [id |-> next_id, kind |-> kind], call_id, now).raised
C10_FailureCounted ==
    [][\A k \in FrameKinds, c \in CallIds :
          ProcessFrameCall(k, c) =>
             /\ processed_frames' = processed_frames
             /\ raw_buffer' = raw_buffer /\ processed_buffer' = processed_buffer
             /\ IF Fails(k, c)
                THEN /\ dropped_frames' = dropped_frames + 1
                     /\ pf_result' = AudioError
                     /\ current_digit' = current_digit
                ELSE /\ dropped_frames' = dropped_frames
                     /\ pf_result' = Processed([id |-> next_id, kind |-> k])]_vars
C10_Witness == pf_result = AudioError /\ dropped_frames > 1 /\ digit_start_time # NoTime

(* C11: a step of the loop in which the processing of a frame failed       *)
(* leaves the pipeline running and the loop task alive, and the loop goes  *)
(* on in that same step with the frames that follow in the raw buffer: it  *)
(* ends with the raw buffer empty or suspended in the handler of a later   *)
(* frame.                                                                  *)
C11_FailureKeepsLoop ==
    [][(LoopStep /\ dropped_frames' > dropped_frames) =>
          /\ running /\ running'
          /\ processing_task' = processing_task
          /\ \A t \in LiveTasks : tasks'[t].pc \in {"waiting", "woken", "handler"}
          /\ (raw_buffer' = <<>> \/ Iterating')]_vars
C11_Witness ==
    running /\ LiveTasks # {} /\ dropped_frames > 0 /\ processed_frames = 2

(* C12: when the fan-out of a frame ends, every stream handler that was     *)
(* registered when it began has been invoked exactly once with that frame. *)
Count(q, x) == Cardinality({i \in DOMAIN q : q[i] = x})
FanoutEnds(t) ==
    HandlerReturn(t) /\ (tasks'[t].pc # "handler" \/ tasks'[t].cur # tasks[t].cur)
C12_EachHandlerOnce ==
    [][\A t \in TaskIds :
          FanoutEnds(t) =>
             \A h \in tasks[t].it.snap : Count(delivered'[h], tasks[t].cur.id) = 1]_vars

(* C13: an add or remove made while a fan-out is suspended in a handler    *)
(* never ends the loop, and the fan-out still reaches every handler of the *)
(* set it began with.                                                      *)
C13_RegistryChangeSafe ==
    [][\A t \in TaskIds :
          HandlerReturn(t) =>
             /\ running => tasks'[t].pc # "done"
             /\ FanoutEnds(t) =>
                   \A h \in tasks[t].it.snap :
                       tasks[t].cur.id \in Range(delivered'[h])]_vars

(* C14: in every reachable state of the detector, after frames that were   *)
(* processed and frames whose processing raised, digit_start_time is set   *)
(* exactly when current_digit is set.                                      *)
C14_StartIffDigit == (current_digit = None) <=> (digit_start_time = NoTime)
C14_Witness ==
    current_digit # None /\ digit_start_time # NoTime /\ pa_result = Raised /\ Len(fed) >= 2

(* C15: a frame classified as no tone while a digit is active ends the     *)
(* digit: process_audio returns and both current_digit and                 *)
(* digit_start_time are cleared.                                           *)
C15_NoToneEndsDigit ==
    [][\A c \in CallIds :
          (ProcessAudio("silence", c) /\ current_digit # None) =>
             /\ pa_result' = Ok
             /\ current_digit' = None
             /\ digit_start_time' = NoTime]_vars

(* C16: with a webhook manager, a no-tone frame after a tone that lasted   *)
(* at least min_duration_ms yields exactly one event with that digit, the  *)
(* call id and the duration, and after a shorter tone it yields none.      *)
C16_SustainedToneOneEvent ==
    [][\A c \in CallIds :
          (ProcessAudio("silence", c) /\ current_digit # None
             /\ webhook_manager # None) =>
             IF now - digit_start_time >= min_duration_ms
             THEN dispatched' = Append(dispatched,
                                       [digit |-> current_digit, call_id |-> c,
                                        duration_ms |-> now - digit_start_time])
             ELSE dispatched' = dispatched]_vars

(* C17: a frame classified as a digit other than current_digit ends the    *)
(* previous digit, with its event if it lasted long enough, and starts the *)
(* new one: afterwards current_digit is the new digit and                  *)
(* digit_start_time the time of the frame.                                 *)
C17_DigitChangeStartsNew ==
    [][\A k \in {"tone4", "tone5"}, c \in CallIds :
          LET digit == detect_dtmf([id |-> next_id, kind |-> k])
          IN (ProcessAudio(k, c) /\ digit # current_digit) =>
                /\ current_digit' = digit
                /\ digit_start_time' = now
                /\ Len(dispatched') =
                      IF current_digit # None
                         /\ now - digit_start_time >= min_duration_ms
                      THEN Len(dispatched) + 1 ELSE Len(dispatched)]_vars

(* C18: a frame of one call never starts, ends or alters the digit that    *)
(* is being tracked for another call, and yields no event for it.          *)
C18_StatePerCall ==
    [][\A k \in DtmfKinds, c \in CallIds :
          (ProcessAudio(k, c) /\ current_digit # None /\ digit_call_id # c) =>
             /\ current_digit' = current_digit
             /\ digit_start_time' = digit_start_time
             /\ dispatched' = dispatched]_vars

(* C19: as long as only silent frames have been fed to an idle detector,   *)
(* however many and over whatever time, no digit event exists, every call  *)
(* returned and the detector is idle.                                      *)
OnlySilence == fed # <<>> /\ \A i \in DOMAIN fed : fed[i].kind = "silence"
C19_SilenceNoEvent ==
    OnlySilence =>
        /\ dispatched = <<>> /\ webhook_queue = <<>>
        /\ current_digit = None /\ digit_start_time = NoTime
        /\ pa_result = Ok
C19_Witness ==
    OnlySilence /\ Len(fed) >= 3 /\ fed[Len(fed)].time > fed[1].time

C21_ClearResetsCounters ==
    [][ /\ (instance = "core" /\ Clear) =>
              /\ raw_buffer' = <<>> /\ processed_buffer' = <<>>
              /\ overflow_count' = 0 /\ underflow_count' = 0
        /\ (instance = "hw" /\ HwClear) =>
              /\ hw_buffer' = <<>>
              /\ hw_stats'.overflows = 0 /\ hw_stats'.underflows = 0 ]_vars

(* C22: no write and no read raises because of an overflow or an underflow, *)
(* whichever the overflow strategy and however many samples are written:   *)
(* the outcome of every call is a return value.                            *)
C22_NoRaise == instance = "hw" => hw_result.kind # "raised"

(* C23: under the overwrite strategy a write of n samples that does not fit *)
(* evicts exactly the e = len + n - capacity oldest samples, leaves the    *)
(* remaining old samples followed by all n new ones, returns (n, e) and    *)
(* adds one to the overflow counter and e to the dropped samples.          *)
C23_OverwriteEvictsOldest ==
    [][ \A n \in 1..MaxWrite :
          LET e == Len(hw_buffer) + n - samples_per_frame
          IN (/\ instance = "hw" /\ overflow_strategy = "overwrite"
              /\ e > 0 /\ HwWrite(n)) =>
                /\ hw_buffer' = SubSeq(hw_buffer, e + 1, Len(hw_buffer))
                                   \o [i \in 1..n |-> next_id]
                /\ hw_result' = [HwNoResult EXCEPT !.kind = "written", !.written = n,
                                                  !.dropped = e]
                /\ hw_stats'.overflows = hw_stats.overflows + 1
                /\ hw_stats'.dropped_samples = hw_stats.dropped_samples + e ]_vars

(* C24: no sample buffer exists whose byte size is not a multiple of       *)
(* channels * sample_width (its construction fails), so no call on a       *)
(* buffer meets such a size.                                               *)
C24_SizeCheckedAtConstruction ==
    instance = "hw" => hw_max_size % (channels * sample_width) = 0

(* C25: after any sequence of connects and disconnects the stream-handler  *)
(* registry holds exactly the handlers of the consumers that are connected. *)
ConnectedHandlers == {ws_handler_id(w) : w \in active_connections}
C25_RegistryIsConnected == dict_keys(stream_handlers) = ConnectedHandlers

(* C26: for every byte b, decoding b, encoding the sample and decoding the *)
(* result gives a sample that differs from the first by at most one        *)
(* quantization step of b's segment (2^(exponent+3) sixteen-bit units),    *)
(* and none of the three calls changes any state of the pipeline.          *)
ulaw_step(b) == 2 ^ (ulaw_exponent(b) + 3)
C26_RoundTrip ==
    codec.pc = "done" =>
        /\ codec.second - codec.first <= ulaw_step(codec.byte)
        /\ codec.first - codec.second <= ulaw_step(codec.byte)
C26_Pure == [][codec' # codec => UNCHANGED codecOthers]_vars

(* C27: a frame is classified as a digit exactly when the largest row      *)
(* energy and the largest column energy both exceed the threshold; the     *)
(* digit is then the entry of the DTMF matrix at a row and a column that   *)
(* hold those maxima, and it is "4" when they are the 770 Hz row and the   *)
(* 1209 Hz column.  A frame is frame_size samples; a shorter input is no   *)
(* tone.                                                                   *)
Highest(s, i) == \A j \in DOMAIN s : s[j] <= s[i]
OnlyHighest(s, i) == \A j \in DOMAIN s : j # i => s[j] < s[i]
C27_Classifier ==
    classifier.pc = "done" =>
        LET row == classifier.row_energies
            col == classifier.col_energies
            both == /\ \E r \in 1..4 : row[r] > detection_threshold
                    /\ \E c \in 1..4 : col[c] > detection_threshold
        IN IF classifier.len < frame_size THEN classifier.result = None
           ELSE /\ (classifier.result # None) <=> both
                /\ both => \E r \in 1..4, c \in 1..4 :
                              /\ Highest(row, r) /\ Highest(col, c)
                              /\ classifier.result = DTMF_DIGITS[r][c]
                /\ \A r \in 1..4, c \in 1..4 :
                      (/\ both /\ OnlyHighest(row, r) /\ OnlyHighest(col, c)
                       /\ DTMF_FREQS.row[r] = 770 /\ DTMF_FREQS.col[c] = 1209)
                      => classifier.result = "4"
C27_Witness ==
    /\ classifier.pc = "done" /\ classifier.len = frame_size
    /\ classifier.result = "4"
    /\ classifier.row_energies[2] > detection_threshold
    /\ classifier.col_energies[1] > detection_threshold
    /\ classifier.row_energies[1] = detection_threshold

(* C28: the samples returned to process_frame, which it hands to the       *)
(* encoder, are the decoded samples multiplied by the gain, then levelled  *)
(* by the AGC if it is enabled, then gated if noise reduction is enabled,  *)
(* then clipped, in that order; each of them lies in [-1, 1].              *)
C28_FixedOrderClipLast ==
    transform.pc = "applied" =>
        /\ transform.audio_data # <<>> =>
              transform.samples = [i \in DOMAIN transform.audio_data |->
                                      ulaw_to_pcm(transform.audio_data[i])]
        /\ transform.gained = apply_gain(transform.samples, transform.gain)
        /\ transform.levelled = IF transform.enable_agc THEN agc(transform.gained)
                                ELSE transform.gained
        /\ transform.gated = IF transform.enable_noise_reduction
                             THEN noise_gate(transform.levelled) ELSE transform.levelled
        /\ \A i \in DOMAIN transform.processed :
              /\ transform.processed[i] >= -FullScale
              /\ transform.processed[i] <= FullScale
              /\ transform.gated[i] \in -FullScale..FullScale =>
                    transform.processed[i] = transform.gated[i]
C28_Witness ==
    /\ transform.pc = "applied" /\ transform.audio_data # <<>>
    /\ \E i \in DOMAIN transform.processed :
          transform.gated[i] > FullScale /\ transform.processed[i] = FullScale

(* C29: with AGC enabled, a frame whose samples all have one amplitude     *)
(* below the target comes out with the target as its mean amplitude.       *)
ConstantLevel(samples) ==
    /\ samples # <<>>
    /\ \A i \in DOMAIN samples : sum_abs(<<samples[i]>>) = sum_abs(<<samples[1]>>)
    /\ sum_abs(<<samples[1]>>) < agc_target
AtTarget(samples) == sum_abs(samples) = agc_target * Len(samples)
C30_OnlyValidTransitions ==
    [][ /\ \A s \in PhoneState :
              (\E suspends \in BOOLEAN : PhoneTransitionTo(s, suspends)) =>
                 IF s \in valid_transitions[phone.state]
                 THEN phone'.state = s
                 ELSE /\ phone'.result = "StateTransitionError"
                      /\ phone'.state = phone.state /\ phone'.history = phone.history
        /\ \A s \in CallState :
              CallTransitionTo(s) =>
                 IF s \in VALID_TRANSITIONS[callmgr.state]
                 THEN callmgr'.state = s
                 ELSE /\ callmgr'.result = "StateTransitionError"
                      /\ callmgr'.state = callmgr.state
                      /\ callmgr'.history = callmgr.history
        /\ (phone.state = "error" /\ phone'.state # "error") => phone'.state = "on_hook"
        /\ (callmgr.state = "error" /\ callmgr'.state # "error") =>
              callmgr'.state = "on_hook" ]_vars

(* C33: every non-empty frame the loop takes from the raw buffer adds       *)
(* exactly one to processed_frames + dropped_frames.                        *)
C33_ExactAccounting ==
    [][(LoopStep /\ NoEmptyFrame) =>
          Len(raw_buffer) - Len(raw_buffer')
            = (processed_frames' - processed_frames)
              + (dropped_frames' - dropped_frames)]_vars

(* C34: every frame a step of the loop counts in processed_frames was       *)
(* appended to the processed buffer by that step: a frame the full         *)
(* processed buffer rejects is not counted as processed.                   *)
C34_ProcessedWereStored ==
    [][LoopStep =>
          processed_frames' - processed_frames
            <= Len(processed_buffer') - Len(processed_buffer)]_vars

(* C35: encoding a sample of [-1, 1] never wraps in 16-bit arithmetic: the  *)
(* scaled value has the sample's sign, the magnitude plus the bias lies in *)
(* 0..32767, and the encoded byte carries the sample's sign (bit 7 of the  *)
(* byte is clear exactly for a negative sample).                           *)
C35_EncodeNeverWraps ==
    codec.pc = "sample" =>
        /\ (codec.first < 0) = (codec.scaled < 0)
        /\ (codec.first > 0) = (codec.scaled > 0)
        /\ pcm_biased(codec.scaled) \in 0..32767
        /\ (codec.encoded < 128) = (codec.first < 0)

(* C36: no thread asks for the sample buffer's mutex while it holds it: the *)
(* holder of the mutex is never among the threads that wait for it.        *)
C36_NoSelfDeadlock ==
    hw_lock.holder # None => hw_lock.holder \notin hw_lock.waiting

(* C37: set_error called outside ERROR leaves the phone in ERROR with the   *)
(* condition recorded, clear_error called in ERROR leaves it in ON_HOOK    *)
(* with the condition cleared, and neither is left waiting for the lock.   *)
C37_ErrorCallsComplete ==
    [][/\ \A c \in ErrorConditions :
             (SetError(c) /\ phone.state # "error") =>
                 /\ phone'.state = "error"
                 /\ phone'.error_condition = c
                 /\ phone'.pc # "blocked"
       /\ (ClearError /\ phone.state = "error") =>
                 /\ phone'.state = "on_hook"
                 /\ phone'.error_condition = None
                 /\ phone'.pc # "blocked"]_vars

(* C38: a call is tracked only while the state is ACTIVE, and a start_call  *)
(* or end_call that raises leaves active_calls as it was.                  *)
C38_TrackedOnlyWhileActive ==
    [][/\ callmgr'.active_calls # {} => callmgr'.state = "active"
       /\ \A c \in SessionIds :
             ((StartCall(c) \/ EndCall(c)) /\ callmgr'.result # "returned") =>
                 callmgr'.active_calls = callmgr.active_calls]_vars

(* C39: the confirmation of an incoming call while the state manager is     *)
(* ON_HOOK leaves it ACTIVE with the call tracked, and the disconnection   *)
(* of the last call leaves it ON_HOOK with no call tracked.                *)
C39_CallLifecycle ==
    [][\A c \in SessionIds :
          /\ (CallConnected(c) /\ callmgr.state = "on_hook") =>
                 /\ callmgr'.state = "active"
                 /\ c \in callmgr'.active_calls
          /\ (CallDisconnected(c) /\ DOMAIN sip.active_sessions = {c}) =>
                 /\ callmgr'.state = "on_hook"
                 /\ callmgr'.active_calls = {}]_vars

\* how often id occurs in the sequence s
Occurrences(s, id) == Cardinality({i \in 1..Len(s) : s[i] = id})

(* C31: every event passed to dispatch() is eventually delivered exactly    *)
(* once to each global handler and each handler registered for its type,   *)
(* and never more than once to any handler.                                *)
C31_EventuallyDeliveredOnce ==
    /\ [](\A h \in EventHandlers : \A id \in 1..MaxEvents :
             Occurrences(dispatcher.delivered[h], id) <= 1)
    /\ \A id \in 1..MaxEvents :
          (Len(dispatcher.sent) >= id)
             ~> (/\ Len(dispatcher.sent) >= id
                 /\ \A h \in collect_handlers(dispatcher, dispatcher.sent[id].type) :
                       Occurrences(dispatcher.delivered[h], id) = 1)

Terminal == {"success", "failed"}

(* C32: every webhook handed to deliver() eventually has a terminal status, *)
(* 'success' or 'failed', once the manager runs.                           *)
C32_EventuallyTerminal ==
    \A w \in WebhookIds :
        (w \in DOMAIN delivery_manager.deliveries)
           ~> (/\ w \in DOMAIN delivery_manager.deliveries
               /\ delivery_manager.deliveries[w].status \in Terminal)

(* C40: current_attempt never exceeds max_attempts, and a retry round never *)
(* attempts a delivery whose status is 'success' or 'failed'.              *)
C40_AttemptsBounded ==
    [][\A w \in DOMAIN delivery_manager'.deliveries :
          /\ delivery_manager'.deliveries[w].current_attempt
                <= delivery_manager'.deliveries[w].max_attempts
          /\ ((\E o \in PostOutcomes : ProcessRetry(w, o))
              /\ delivery_manager.deliveries[w].status \in Terminal) =>
                 delivery_manager'.deliveries[w].current_attempt
                    = delivery_manager.deliveries[w].current_attempt]_vars

====
